---- MODULE Spec2Model ----
(***************************************************************************)
(* ADLES: the specification validators of adles/parser.py and              *)
(* automation/parser.py as operators over a model of parsed YAML           *)
(* documents, and a state machine that applies them to the documents a     *)
(* specification file and its infrastructure file can hold.                *)
(***************************************************************************)
EXTENDS Integers, Sequences, FiniteSets, TLC

VARIABLES
    spec,    \* parsed contents of the specification file "spec.yaml"
    infra,   \* parsed contents of the infrastructure file "infra.yaml"
    called,  \* the function invoked last ("" before any call)
    ret,     \* what that call returned: counts, diagnostics, raised exception
    walk,    \* a run of _verify_folders_syntax in progress: its call stack and counts
    vs,      \* the vSphere server: its inventory, and what was called and logged on it
    script   \* a run of destroy_vms.py: where it is, what it asked and what it was answered

vars == <<spec, infra, called, ret, walk, vs, script>>

(***************************************************************************)
(* Bounds of the model.                                                    *)
(***************************************************************************)
\* entries of a mapping whose entries are all validated (groups, networks of
\* one class, child folders of one folder)
MaxEntries == 2
\* nesting levels of parent folders above a leaf folder
MaxDepth == 2

(***************************************************************************)
(* Parsed YAML values.  A value carries its Python type; a mapping keeps   *)
(* its entries in document order, as dict.items() iterates them.           *)
(***************************************************************************)
YStr(s) == [t |-> "str", v |-> s]
YInt(n) == [t |-> "int", v |-> n]
YBool(b) == [t |-> "bool", v |-> b]
YList(s) == [t |-> "list", v |-> s]
YMap(s) == [t |-> "map", v |-> s]
YNone == [t |-> "none", v |-> ""]
KV(k, x) == [k |-> k, v |-> x]

Keys(m) == {m.v[i].k : i \in 1..Len(m.v)}

\* m[k] of a mapping that has the key
Get(m, k) == m.v[CHOOSE i \in 1..Len(m.v) : m.v[i].k = k].v

\* Python's `k in x` raises TypeError on a value that is no container
InRaises(x) == x.t \in {"int", "bool", "none"}

\* Python's `k in x`: a key of a mapping, an element of a list, a substring
\* of a string (no string of the model properly contains a key, so the
\* substring test is equality)
PyIn(k, x) ==
    CASE x.t = "map" -> k \in Keys(x)
      [] x.t = "list" -> \E i \in 1..Len(x.v) : x.v[i] = k
      [] x.t = "str" -> x.v = k
      [] OTHER -> FALSE

(***************************************************************************)
(* The files the validators open.                                          *)
(***************************************************************************)
\* os.path.exists
exists(path) == path \in {"spec.yaml", "infra.yaml", "broken.yaml", "users.json",
                          "bad.json", "login.json"}

\* utils.read_json(filename) is None: the file is missing or holds no JSON
read_json_is_None(path) == path \notin {"users.json", "login.json"}

(***************************************************************************)
(* What a validator returns: (errors, warnings), the diagnostics it        *)
(* logged, and the exception it raised ("" when it returned).              *)
(***************************************************************************)
Diag(lvl, msg, args) == [lvl |-> lvl, msg |-> msg, args |-> args]
Ok0 == [e |-> 0, w |-> 0, log |-> <<>>, exc |-> ""]
Error(msg, args) == [e |-> 1, w |-> 0, log |-> <<Diag("error", msg, args)>>, exc |-> ""]
Warning(msg, args) == [e |-> 0, w |-> 1, log |-> <<Diag("warning", msg, args)>>, exc |-> ""]
\* a diagnostic that no counter counts
Log(lvl, msg, args) == [e |-> 0, w |-> 0, log |-> <<Diag(lvl, msg, args)>>, exc |-> ""]
Raise(kind) == [e |-> 0, w |-> 0, log |-> <<>>, exc |-> kind]

\* r1, then r2 with num_errors += e; num_warnings += w; an exception of r1
\* ends the function before r2
Then(r1, r2) ==
    IF r1.exc # "" THEN r1
    ELSE [e |-> r1.e + r2.e, w |-> r1.w + r2.w, log |-> r1.log \o r2.log, exc |-> r2.exc]

\* the number of diagnostics of a log that satisfy Test
Count(log, Test(_)) == Cardinality({i \in 1..Len(log) : Test(log[i])})
NumLogged(log, lvl) == Count(log, LAMBDA d : d.lvl = lvl)

(***************************************************************************)
(* _checker: the values of value_list that are not in data, one diagnostic *)
(* each.  `source` is the sequence of strings the source label is          *)
(* formatted from.  Returns [n, log, exc].                                 *)
(***************************************************************************)
_checker(value_list, source, data, flag) ==
    IF value_list # <<>> /\ InRaises(data)
    THEN [n |-> 0, log |-> <<>>, exc |-> "TypeError"]
    ELSE LET missing == SelectSeq(value_list, LAMBDA x : ~PyIn(x, data))
             lvl == IF flag = "warnings" THEN "warning" ELSE "error"
             msg == IF flag \in {"warnings", "errors"} THEN "Missing %s in %s"
                    ELSE "Invalid flag for _checker: %s"
             hits == [i \in 1..Len(missing) |->
                         Diag(lvl, msg, IF flag \in {"warnings", "errors"}
                                        THEN <<missing[i]>> \o source ELSE <<flag>>)]
             total == IF Len(missing) > 0
                      THEN <<Diag("info", "Total number of %s in %s: %d",
                                  <<flag>> \o source \o <<ToString(Len(missing))>>)>>
                      ELSE <<>>
         IN [n |-> Len(missing), log |-> hits \o total, exc |-> ""]

\* num_errors += _checker(..., "errors") and num_warnings += _checker(..., "warnings")
CheckedErrors(c) == [e |-> c.n, w |-> 0, log |-> c.log, exc |-> c.exc]
CheckedWarnings(c) == [e |-> 0, w |-> c.n, log |-> c.log, exc |-> c.exc]

(***************************************************************************)
(* adles/parser.py: _check_group_file and _verify_groups_syntax            *)
(***************************************************************************)
_check_group_file(filename) ==
    IF read_json_is_None(filename.v)
    THEN Error("Invalid user info file %s", <<filename.v>>)
    ELSE Ok0

\* adles_group accepting `user-list` for a template group and never looking
\* at its type
adles_group_user_list_unchecked(key, value) ==
    IF InRaises(value) THEN Raise("TypeError")
    ELSE Then(IF PyIn("instances", value) /\ Get(value, "instances").t # "int"
              THEN Error("Instances must be an Integer for group %s", <<key>>)
              ELSE Ok0,
              IF PyIn("ad-group", value)
              THEN IF Get(value, "ad-group").t # "str"
                   THEN Error("AD group must be a string", <<>>)
                   ELSE Ok0
              ELSE IF PyIn("filename", value)
              THEN _check_group_file(Get(value, "filename"))
              ELSE IF PyIn("user-list", value) THEN Ok0
              ELSE Error("Invalid user specification method for group %s", <<key>>))

\* lines 111-141: the body of the loop of _verify_groups_syntax for one group
adles_group(key, value) ==
    IF InRaises(value) THEN Raise("TypeError")
    ELSE IF PyIn("instances", value)
    THEN Then(IF Get(value, "instances").t # "int"
              THEN Error("Instances must be an Integer for group %s", <<key>>)
              ELSE Ok0,
              IF PyIn("ad-group", value)
              THEN IF Get(value, "ad-group").t # "str"
                   THEN Error("AD group must be a string", <<>>)
                   ELSE Ok0
              ELSE IF PyIn("filename", value)
              THEN _check_group_file(Get(value, "filename"))
              ELSE Error("Invalid user specification method for template group %s",
                         <<key>>))
    ELSE IF PyIn("ad-group", value)
    THEN IF Get(value, "ad-group").t # "str"
         THEN Error("AD group must be a string", <<>>)
         ELSE Ok0
    ELSE IF PyIn("filename", value)
    THEN _check_group_file(Get(value, "filename"))
    ELSE IF PyIn("user-list", value)
    THEN IF Get(value, "user-list").t # "list"
         THEN Error("Username specification must be a list for group %s", <<key>>)
         ELSE Ok0
    ELSE Error("Invalid user specification method for group %s", <<key>>)

RECURSIVE adles_groups_loop(_, _, _)
adles_groups_loop(groups, i, acc) ==
    IF i > Len(groups.v) \/ acc.exc # "" THEN acc
    ELSE adles_groups_loop(groups, i + 1,
                           Then(acc, adles_group(groups.v[i].k, groups.v[i].v)))

adles_verify_groups_syntax(groups) ==
    IF groups.t # "map" THEN Raise("AttributeError")
    ELSE adles_groups_loop(groups, 1, Ok0)

(***************************************************************************)
(* automation/parser.py: _verify_groups_syntax                             *)
(***************************************************************************)
automation_group(key, value) ==
    IF InRaises(value) THEN Raise("TypeError")
    ELSE IF PyIn("instances", value)
    THEN Then(IF Get(value, "instances").t # "int"
              THEN Error("Instances must be an Integer for group %s", <<key>>)
              ELSE Ok0,
              IF PyIn("ad-group", value) THEN Ok0
              ELSE IF PyIn("filename", value) THEN Ok0
              ELSE Error("Invalid user specification method for template group %s",
                         <<key>>))
    ELSE IF PyIn("ad-group", value) THEN Ok0
    ELSE IF PyIn("filename", value) THEN Ok0
    ELSE IF PyIn("user-list", value)
    THEN IF Get(value, "user-list").t # "list"
         THEN Error("Username specification must be a list for group %s", <<key>>)
         ELSE Ok0
    ELSE Error("Invalid user specification method for group %s", <<key>>)

RECURSIVE automation_groups_loop(_, _, _)
automation_groups_loop(groups, i, acc) ==
    IF i > Len(groups.v) \/ acc.exc # "" THEN acc
    ELSE automation_groups_loop(groups, i + 1,
                                Then(acc, automation_group(groups.v[i].k, groups.v[i].v)))

automation_verify_groups_syntax(groups) ==
    IF groups.t # "map" THEN Raise("AttributeError")
    ELSE automation_groups_loop(groups, 1, Ok0)

(***************************************************************************)
(* adles/parser.py: _verify_services_syntax, _verify_resources_syntax      *)
(***************************************************************************)
adles_service(key, value) ==
    IF InRaises(value) THEN Raise("TypeError")
    ELSE
    Then(IF PyIn("network-interfaces", value) /\ Get(value, "network-interfaces").t # "list"
         THEN Error("Network interfaces must be a list for service %s", <<key>>)
         ELSE Ok0,
    Then(IF PyIn("provisioner", value)
         THEN CheckedErrors(_checker(<<"name", "file">>, <<"provisioner for service %s", key>>,
                                     Get(value, "provisioner"), "errors"))
         ELSE Ok0,
    Then(IF PyIn("note", value) /\ Get(value, "note").t # "str"
         THEN Error("Note must be a string for service %s", <<key>>)
         ELSE Ok0,
         IF PyIn("template", value) THEN Ok0
         ELSE IF PyIn("image", value) \/ PyIn("dockerfile", value) THEN Ok0
         ELSE IF PyIn("compose-file", value) THEN Ok0
         ELSE Error("Invalid service definition: %s", <<key>>))))

RECURSIVE adles_services_loop(_, _, _)
adles_services_loop(services, i, acc) ==
    IF i > Len(services.v) \/ acc.exc # "" THEN acc
    ELSE adles_services_loop(services, i + 1,
                             Then(acc, adles_service(services.v[i].k, services.v[i].v)))

adles_verify_services_syntax(services) ==
    IF services.t # "map" THEN Raise("AttributeError")
    ELSE adles_services_loop(services, 1, Ok0)

adles_verify_resources_syntax(resources) ==
    LET cw == CheckedWarnings(_checker(<<>>, <<"resources">>, resources, "warnings"))
        ce == CheckedErrors(_checker(<<"lab", "resource">>, <<"resources">>, resources, "errors"))
    IN Then(cw, ce)

(***************************************************************************)
(* automation/parser.py: _verify_services_syntax, _verify_resources_syntax *)
(***************************************************************************)
automation_service(key, value) ==
    IF InRaises(value) THEN Raise("TypeError")
    ELSE IF PyIn("template", value) THEN Ok0
    ELSE IF PyIn("image", value) THEN Ok0
    ELSE IF PyIn("compose-file", value) THEN Ok0
    ELSE Error("Invalid service definition: %s", <<key>>)

RECURSIVE automation_services_loop(_, _, _)
automation_services_loop(services, i, acc) ==
    IF i > Len(services.v) \/ acc.exc # "" THEN acc
    ELSE automation_services_loop(services, i + 1,
                                  Then(acc, automation_service(services.v[i].k, services.v[i].v)))

automation_verify_services_syntax(services) ==
    IF services.t # "map" THEN Raise("AttributeError")
    ELSE automation_services_loop(services, 1, Ok0)

automation_verify_resources_syntax(resources) ==
    LET cw == CheckedWarnings(_checker(<<>>, <<"resources">>, resources, "warnings"))
        ce == CheckedErrors(_checker(<<>>, <<"resources">>, resources, "errors"))
    IN Then(cw, ce)

(***************************************************************************)
(* netaddr.IPNetwork and its address-space tests, on the subnets the model *)
(* writes.  A parsed network is its first two octets; "" is                *)
(* AddrFormatError.                                                        *)
(***************************************************************************)
IPNetwork(s) ==
    CASE s = "10.0.0.0/24" -> <<10, 0>>
      [] s = "172.16.0.0/16" -> <<172, 16>>
      [] s = "192.168.1.0/24" -> <<192, 168>>
      [] s = "8.8.8.0/24" -> <<8, 8>>
      [] s = "172.32.0.0/16" -> <<172, 32>>
      [] s = "127.0.0.0/8" -> <<127, 0>>
      [] s = "224.0.0.0/4" -> <<224, 0>>
      [] s = "240.0.0.0/4" -> <<240, 0>>
      [] OTHER -> <<>>

is_loopback(n) == n[1] = 127
is_multicast(n) == n[1] >= 224 /\ n[1] <= 239
is_reserved(n) == n[1] >= 240 \/ n[1] = 0 \/ n[1] = 127
is_private(n) ==
    \/ n[1] = 10
    \/ n[1] = 172 /\ n[2] >= 16 /\ n[2] <= 31
    \/ n[1] = 192 /\ n[2] = 168

\* VLAN ids from this value on are refused under unique-networks
VlanLimit == 2000

(***************************************************************************)
(* adles/parser.py: _verify_network and _verify_networks_syntax            *)
(***************************************************************************)
\* adles_subnet_check with the privacy test made an `if` of its own
adles_subnet_check_if_for_elif(name, key, value) ==
    IF ~PyIn("subnet", value)
    THEN Warning("No subnet specified for %s %s", <<name, key>>)
    ELSE LET subnet == IPNetwork(Get(value, "subnet").v)
         IN IF subnet = <<>>
            THEN Error("Invalid format for subnet '%s'", <<Get(value, "subnet").v>>)
            ELSE Then(IF is_reserved(subnet) \/ is_multicast(subnet) \/ is_loopback(subnet)
                      THEN Error("%s %s is in a invalid IP address space", <<name, key>>)
                      ELSE Ok0,
                      IF ~is_private(subnet)
                      THEN Warning("Non-private subnet used for %s %s", <<name, key>>)
                      ELSE Ok0)

\* lines 241-257: the subnet verification of one entry
adles_subnet_check(name, key, value) ==
    IF ~PyIn("subnet", value)
    THEN Warning("No subnet specified for %s %s", <<name, key>>)
    ELSE LET subnet == IPNetwork(Get(value, "subnet").v)
         IN IF subnet = <<>>
            THEN Error("Invalid format for subnet '%s'", <<Get(value, "subnet").v>>)
            ELSE IF is_reserved(subnet) \/ is_multicast(subnet) \/ is_loopback(subnet)
            THEN Error("%s %s is in a invalid IP address space", <<name, key>>)
            ELSE IF ~is_private(subnet)
            THEN Warning("Non-private subnet used for %s %s", <<name, key>>)
            ELSE Ok0

\* adles_vlan_check with > for >=
adles_vlan_check_off_by_one(name, key, value) ==
    IF ~PyIn("vlan", value) THEN Ok0
    ELSE IF name = "unique-networks"
    THEN IF Get(value, "vlan").t # "int" THEN Raise("ValueError")
         ELSE IF Get(value, "vlan").v > VlanLimit
         THEN Error("VLAN must be less than 2000 for network %s", <<key>>)
         ELSE Ok0
    ELSE IF name = "generic-networks"
    THEN Error("VLAN specification is not allowed for network %s", <<key>>)
    ELSE Ok0

\* lines 259-266: the VLAN verification of one entry; int() of a string that
\* is no number raises ValueError
adles_vlan_check(name, key, value) ==
    IF ~PyIn("vlan", value) THEN Ok0
    ELSE IF name = "unique-networks"
    THEN IF Get(value, "vlan").t # "int" THEN Raise("ValueError")
         ELSE IF Get(value, "vlan").v >= VlanLimit
         THEN Error("VLAN must be less than 2000 for network %s", <<key>>)
         ELSE Ok0
    ELSE IF name = "generic-networks"
    THEN Error("VLAN specification is not allowed for network %s", <<key>>)
    ELSE Ok0

\* lines 268-275: the increment verification of one entry
adles_increment_check(name, key, value) ==
    IF ~PyIn("increment", value) THEN Ok0
    ELSE IF name = "unique-networks"
    THEN Error("Increment cannot be used for network %s", <<key>>)
    ELSE IF Get(value, "increment").t # "bool"
    THEN Error("Increment must be a boolean for network %s", <<key>>)
    ELSE Ok0

adles_network_entry(name, key, value) ==
    IF InRaises(value) THEN Raise("TypeError")
    ELSE Then(adles_subnet_check(name, key, value),
         Then(adles_vlan_check(name, key, value),
              adles_increment_check(name, key, value)))

RECURSIVE adles_network_loop(_, _, _, _)
adles_network_loop(name, network, i, acc) ==
    IF i > Len(network.v) \/ acc.exc # "" THEN acc
    ELSE adles_network_loop(name, network, i + 1,
             Then(acc, adles_network_entry(name, network.v[i].k, network.v[i].v)))

adles_verify_network(name, network) ==
    IF network.t # "map" THEN Raise("AttributeError")
    ELSE adles_network_loop(name, network, 1, Ok0)

adles_net_types == <<"unique-networks", "generic-networks">>

RECURSIVE adles_networks_loop(_, _, _)
adles_networks_loop(networks, i, acc) ==
    IF i > Len(networks.v) \/ acc.exc # "" THEN acc
    ELSE adles_networks_loop(networks, i + 1,
             Then(acc, adles_verify_network(networks.v[i].k, networks.v[i].v)))

adles_verify_networks_syntax(networks) ==
    IF InRaises(networks) THEN Raise("TypeError")
    ELSE IF ~\E j \in 1..Len(adles_net_types) : PyIn(adles_net_types[j], networks)
    THEN Error("Network specification exists but is empty!", <<>>)
    ELSE IF networks.t # "map" THEN Raise("AttributeError")
    ELSE adles_networks_loop(networks, 1, Ok0)

(***************************************************************************)
(* automation/parser.py: _verify_network and _verify_networks_syntax       *)
(***************************************************************************)
\* IPNetwork is not guarded here: a malformed subnet raises AddrFormatError
automation_network_entry(name, key, value) ==
    IF InRaises(value) THEN Raise("TypeError")
    ELSE IF ~PyIn("subnet", value)
    THEN Warning("No subnet specified for %s %s", <<name, key>>)
    ELSE LET subnet == IPNetwork(Get(value, "subnet").v)
         IN IF subnet = <<>> THEN Raise("AddrFormatError")
            ELSE IF is_reserved(subnet) \/ is_multicast(subnet) \/ is_loopback(subnet)
            THEN Error("%s %s is in a invalid IP address space", <<name, key>>)
            ELSE IF ~is_private(subnet)
            THEN Warning("Non-private subnet used for %s %s", <<name, key>>)
            ELSE Ok0

RECURSIVE automation_network_loop(_, _, _, _)
automation_network_loop(name, network, i, acc) ==
    IF i > Len(network.v) \/ acc.exc # "" THEN acc
    ELSE automation_network_loop(name, network, i + 1,
             Then(acc, automation_network_entry(name, network.v[i].k, network.v[i].v)))

automation_verify_network(name, network) ==
    IF network.t # "map" THEN Raise("AttributeError")
    ELSE automation_network_loop(name, network, 1, Ok0)

automation_net_types == <<"unique-networks", "generic-networks", "base-networks">>

RECURSIVE automation_networks_loop(_, _, _)
automation_networks_loop(networks, i, acc) ==
    IF i > Len(networks.v) \/ acc.exc # "" THEN acc
    ELSE automation_networks_loop(networks, i + 1,
             Then(acc, automation_verify_network(networks.v[i].k, networks.v[i].v)))

automation_verify_networks_syntax(networks) ==
    IF InRaises(networks) THEN Raise("TypeError")
    ELSE IF ~\E j \in 1..Len(automation_net_types) : PyIn(automation_net_types[j], networks)
    THEN Error("Network specification exists but is empty!", <<>>)
    ELSE IF networks.t # "map" THEN Raise("AttributeError")
    ELSE automation_networks_loop(networks, 1, Ok0)

(***************************************************************************)
(* adles/parser.py: _verify_scoring_syntax and _verify_folders_syntax      *)
(***************************************************************************)
_verify_scoring_syntax(service_name, scoring) ==
    LET cw == CheckedWarnings(_checker(<<"ports", "protocols">>, <<"service %s", service_name>>,
                                       scoring, "warnings"))
        ce == CheckedErrors(_checker(<<"criteria">>, <<"service %s", service_name>>,
                                     scoring, "errors"))
    IN Then(cw, ce)

\* lines 298-309: the instances syntax of one folder
adles_folder_instances(key, value) ==
    IF ~PyIn("instances", value) THEN Ok0
    ELSE LET inst == Get(value, "instances")
         IN IF inst.t = "int" THEN Ok0
            ELSE IF InRaises(inst) THEN Raise("TypeError")
            ELSE IF PyIn("number", inst)
            THEN IF inst.t # "map" THEN Raise("TypeError")
                 ELSE IF Get(inst, "number").t # "int"
                 THEN Error("Number of instances for folder '%s' must be an Integer", <<key>>)
                 ELSE Ok0
            ELSE IF PyIn("size-of", inst) THEN Ok0
            ELSE Error("Must specify number of instances for folder '%s'", <<key>>)

\* lines 317-327: one service of a base folder
adles_folder_service(key, skey, svalue) ==
    IF InRaises(svalue) THEN Raise("TypeError")
    ELSE
    Then(IF ~PyIn("service", svalue)
         THEN Error("Service %s is unnamed in folder '%s'", <<skey, key>>)
         ELSE Ok0,
    Then(IF PyIn("networks", svalue) /\ Get(svalue, "networks").t # "list"
         THEN Error("Network specifications must be a list for service '%s' in folder '%s'",
                    <<skey, key>>)
         ELSE Ok0,
         IF PyIn("scoring", svalue)
         THEN _verify_scoring_syntax(skey, Get(svalue, "scoring"))
         ELSE Ok0))

RECURSIVE adles_folder_services_loop(_, _, _, _)
adles_folder_services_loop(key, services, i, acc) ==
    IF i > Len(services.v) \/ acc.exc # "" THEN acc
    ELSE adles_folder_services_loop(key, services, i + 1,
             Then(acc, adles_folder_service(key, services.v[i].k, services.v[i].v)))

\* lines 312-327: a base folder
adles_base_folder(key, value) ==
    Then(IF ~PyIn("group", value)
         THEN Error("No group specified for folder '%s'", <<key>>)
         ELSE Ok0,
         IF Get(value, "services").t # "map" THEN Raise("AttributeError")
         ELSE adles_folder_services_loop(key, Get(value, "services"), 1, Ok0))

adles_keywords == {"group", "master-group", "instances", "description", "enabled"}

RECURSIVE adles_verify_folders_syntax(_)

\* lines 292-336: the body of the loop for one entry; `acc` holds num_errors,
\* num_warnings and the log so far
adles_folder_entry(acc, key, value) ==
    IF key \in adles_keywords THEN acc
    ELSE IF value.t # "map"
    THEN Then(acc, Error("Invalid configuration %s", <<key>>))
    ELSE Then(acc,
         Then(adles_folder_instances(key, value),
              IF PyIn("services", value)
              THEN adles_base_folder(key, value)
              ELSE adles_verify_folders_syntax(value)))

RECURSIVE adles_folders_loop(_, _, _)
adles_folders_loop(folders, i, acc) ==
    IF i > Len(folders.v) \/ acc.exc # "" THEN acc
    ELSE adles_folders_loop(folders, i + 1,
                            adles_folder_entry(acc, folders.v[i].k, folders.v[i].v))

adles_verify_folders_syntax(folders) ==
    IF folders.t # "map" THEN Raise("AttributeError")
    ELSE adles_folders_loop(folders, 1, Ok0)

(***************************************************************************)
(* automation/parser.py: _verify_folders_syntax                            *)
(***************************************************************************)
\* lines 230-239: the instances syntax of one folder; there is no case for a
\* bare integer
automation_folder_instances(key, value) ==
    IF ~PyIn("instances", value) THEN Ok0
    ELSE IF value.t # "map" THEN Raise("TypeError")
    ELSE LET inst == Get(value, "instances")
         IN IF InRaises(inst) THEN Raise("TypeError")
            ELSE IF PyIn("number", inst)
            THEN IF inst.t # "map" THEN Raise("TypeError")
                 ELSE IF Get(inst, "number").t # "int"
                 THEN Error("Number of instances for folder %s must be an Integer", <<key>>)
                 ELSE Ok0
            ELSE IF PyIn("size-of", inst) THEN Ok0
            ELSE Error("Must specify number of instances for folder %s", <<key>>)

automation_folder_service(key, skey, svalue) ==
    IF InRaises(svalue) THEN Raise("TypeError")
    ELSE
    Then(IF ~PyIn("service", svalue)
         THEN Error("Service %s is unnamed in folder %s", <<skey, key>>)
         ELSE Ok0,
         IF PyIn("networks", svalue) /\ Get(svalue, "networks").t # "list"
         THEN Error("Network specifications must be a list for service %s in folder %s",
                    <<skey, key>>)
         ELSE Ok0)

RECURSIVE automation_folder_services_loop(_, _, _, _)
automation_folder_services_loop(key, services, i, acc) ==
    IF i > Len(services.v) \/ acc.exc # "" THEN acc
    ELSE automation_folder_services_loop(key, services, i + 1,
             Then(acc, automation_folder_service(key, services.v[i].k, services.v[i].v)))

automation_base_folder(key, value) ==
    Then(IF ~PyIn("group", value)
         THEN Error("No group specified for folder %s", <<key>>)
         ELSE Ok0,
         IF value.t # "map" THEN Raise("TypeError")
         ELSE IF Get(value, "services").t # "map" THEN Raise("AttributeError")
         ELSE automation_folder_services_loop(key, Get(value, "services"), 1, Ok0))

\* line 254: num_errors, num_warnings = _verify_folders_syntax(value): the
\* counts so far are replaced by those of the recursive call; what was
\* logged stays logged
Assigned(acc, r) ==
    IF acc.exc # "" THEN acc
    ELSE [e |-> r.e, w |-> r.w, log |-> acc.log \o r.log, exc |-> r.exc]

RECURSIVE automation_verify_folders_syntax(_)

\* lines 230-254: the body of the loop for one entry
automation_folder_entry(acc, key, value) ==
    IF InRaises(value) THEN Then(acc, Raise("TypeError"))
    ELSE LET inst == Then(acc, automation_folder_instances(key, value))
         IN IF PyIn("services", value)
            THEN Then(inst, automation_base_folder(key, value))
            ELSE Assigned(inst, automation_verify_folders_syntax(value))

RECURSIVE automation_folders_loop(_, _, _)
automation_folders_loop(folders, i, acc) ==
    IF i > Len(folders.v) \/ acc.exc # "" THEN acc
    ELSE automation_folders_loop(folders, i + 1,
                                 automation_folder_entry(acc, folders.v[i].k, folders.v[i].v))

automation_verify_folders_syntax(folders) ==
    IF folders.t # "map" THEN Raise("AttributeError")
    ELSE automation_folders_loop(folders, 1, Ok0)

(***************************************************************************)
(* parse_file: the document a file parses to.  A file that does not exist  *)
(* raises from open(); one that is no YAML is logged and parses to None.   *)
(* Returns [doc, log, exc].                                                *)
(***************************************************************************)
parse_file(filename) ==
    IF ~exists(filename)
    THEN [doc |-> YNone, log |-> <<>>, exc |-> "FileNotFoundError"]
    ELSE IF filename = "spec.yaml" THEN [doc |-> spec, log |-> <<>>, exc |-> ""]
    ELSE IF filename = "infra.yaml" THEN [doc |-> infra, log |-> <<>>, exc |-> ""]
    ELSE IF filename \in {"users.json", "login.json"}
    THEN [doc |-> YMap(<<KV("user", YStr("u")), KV("pass", YStr("p"))>>),
          log |-> <<>>, exc |-> ""]
    ELSE [doc |-> YNone,
          log |-> <<Diag("error", "Could not parse file %s", <<filename>>),
                    Diag("error", "Error position: (%s:%s)", <<"1", "1">>)>>,
          exc |-> ""]

\* the diagnostics of a parse_file call, counted by nobody
Parsed(p) == [e |-> 0, w |-> 0, log |-> p.log, exc |-> p.exc]

(***************************************************************************)
(* adles/parser.py: verify_infra_syntax                                    *)
(***************************************************************************)
\* lines 368-394: one platform; `st` holds the result so far and the
\* `warnings` and `errors` lists, which are set before the loop and by the
\* vmware-vsphere and docker branches only
adles_infra_platform(st, platform, config) ==
    LET known == {"vmware-vsphere", "docker", "amazon-aws", "digital-ocean", "hyper-v"}
        warnings == CASE platform = "vmware-vsphere" ->
                             <<"port", "login-file", "datacenter", "datastore",
                               "server-root", "vswitch">>
                      [] platform = "docker" -> <<"url">>
                      [] OTHER -> st.warnings
        errors == CASE platform = "vmware-vsphere" -> <<"hostname", "template-folder">>
                    [] platform = "docker" -> <<>>
                    [] OTHER -> st.errors
        vsphere ==
            IF InRaises(config) THEN Raise("TypeError")
            ELSE
            Then(IF PyIn("login-file", config)
                    /\ read_json_is_None(Get(config, "login-file").v)
                 THEN Error("Invalid vSphere infrastructure login-file: %s",
                            <<Get(config, "login-file").v>>)
                 ELSE Ok0,
            Then(IF PyIn("host-list", config) /\ Get(config, "host-list").t # "list"
                 THEN Error("Invalid type for vSphere host-list: %s",
                            <<Get(config, "host-list").t>>)
                 ELSE Ok0,
                 IF PyIn("thresholds", config)
                 THEN CheckedErrors(_checker(<<"folder", "service">>, <<"infrastructure">>,
                                             Get(config, "thresholds"), "errors"))
                 ELSE Ok0))
        docker ==
            IF InRaises(config) THEN Raise("TypeError")
            ELSE IF PyIn("registry", config)
            THEN CheckedErrors(_checker(<<"url", "login-file">>, <<"infrastructure">>,
                                        Get(config, "registry"), "errors"))
            ELSE Ok0
        branch == CASE platform = "vmware-vsphere" -> vsphere
                    [] platform = "docker" -> docker
                    [] OTHER -> Ok0
    IN IF platform \notin known
       THEN [st EXCEPT !.res = Then(st.res, Log("error", "Unknown infrastructure platform: %s",
                                                <<platform>>))]
       ELSE [res |-> Then(st.res,
                     Then(branch,
                     Then(CheckedWarnings(_checker(warnings, <<"infrastructure">>, config,
                                                   "warnings")),
                          CheckedErrors(_checker(errors, <<"infrastructure">>, config,
                                                 "errors"))))),
             warnings |-> warnings,
             errors |-> errors]

RECURSIVE adles_infra_loop(_, _, _)
adles_infra_loop(infradoc, i, st) ==
    IF i > Len(infradoc.v) \/ st.res.exc # "" THEN st
    ELSE adles_infra_loop(infradoc, i + 1,
                          adles_infra_platform(st, infradoc.v[i].k, infradoc.v[i].v))

verify_infra_syntax(infradoc) ==
    IF infradoc.t # "map" THEN Raise("AttributeError")
    ELSE adles_infra_loop(infradoc, 1, [res |-> Ok0, warnings |-> <<>>, errors |-> <<>>]).res

(***************************************************************************)
(* adles/parser.py: _verify_exercise_metadata_syntax                       *)
(***************************************************************************)
_verify_exercise_metadata_syntax(metadata) ==
    LET cw == CheckedWarnings(_checker(<<"description", "version", "folder-name">>,
                                       <<"metadata">>, metadata, "warnings"))
        ce == CheckedErrors(_checker(<<"name", "prefix", "infra-file">>,
                                     <<"metadata">>, metadata, "errors"))
        infra_file == Get(metadata, "infra-file").v
    IN Then(cw,
       Then(ce,
            IF ~PyIn("infra-file", metadata) THEN Ok0
            ELSE IF ~exists(infra_file)
            THEN Error("Could not open infra-file '%s'", <<infra_file>>)
            ELSE Then(Parsed(parse_file(infra_file)),
                      verify_infra_syntax(parse_file(infra_file).doc))))

(***************************************************************************)
(* automation/parser.py: _verify_infra_syntax and _verify_metadata_syntax  *)
(***************************************************************************)
_verify_infra_syntax(infradoc) ==
    LET cw == CheckedWarnings(_checker(<<"datacenter", "datastore">>, <<"infrastructure">>,
                                       infradoc, "warnings"))
        ce == CheckedErrors(_checker(<<"platform", "server-hostname", "server-port",
                                       "login-file", "template-folder">>,
                                     <<"infrastructure">>, infradoc, "errors"))
    IN Then(cw, ce)

_verify_metadata_syntax(metadata) ==
    LET cw == CheckedWarnings(_checker(<<"description", "date-created", "folder-name",
                                         "root-path", "template-path">>,
                                       <<"metadata">>, metadata, "warnings"))
        ce == CheckedErrors(_checker(<<"name", "infrastructure-config-file">>,
                                     <<"metadata">>, metadata, "errors"))
        infra_file == Get(metadata, "infrastructure-config-file").v
    IN Then(cw,
       Then(ce,
            IF ~PyIn("infrastructure-config-file", metadata) THEN Ok0
            ELSE Then(Parsed(parse_file(infra_file)),
                      _verify_infra_syntax(parse_file(infra_file).doc))))

(***************************************************************************)
(* adles/parser.py: verify_exercise_syntax                                 *)
(***************************************************************************)
\* the keys of `funcs`, in the order the dict literal gives them
funcs == <<"metadata", "groups", "services", "resources", "networks", "folders">>
required == {"metadata", "groups", "services", "networks", "folders"}
optional == {"resources"}

\* funcs[key](spec[key]) of adles/parser.py
adles_func(key, section) ==
    CASE key = "metadata" -> _verify_exercise_metadata_syntax(section)
      [] key = "groups" -> adles_verify_groups_syntax(section)
      [] key = "services" -> adles_verify_services_syntax(section)
      [] key = "resources" -> adles_verify_resources_syntax(section)
      [] key = "networks" -> adles_verify_networks_syntax(section)
      [] key = "folders" -> adles_verify_folders_syntax(section)

\* adles_exercise_key with `folders` left out of the required sections
adles_exercise_key_folders_optional(document, key) ==
    IF ~PyIn(key, document)
    THEN IF key \in required \ {"folders"}
         THEN Error("Required definition %s was not found", <<key>>)
         ELSE Log("info", "Optional definition \"%s\" was not found", <<key>>)
    ELSE IF document.t # "map" THEN Raise("TypeError")
    ELSE adles_func(key, Get(document, key))

\* lines 419-431: the body of the loop for one key of funcs
adles_exercise_key(document, key) ==
    IF ~PyIn(key, document)
    THEN IF key \in required
         THEN Error("Required definition %s was not found", <<key>>)
         ELSE IF key \in optional
         THEN Log("info", "Optional definition \"%s\" was not found", <<key>>)
         ELSE Warning("Unknown definition found: %s", <<key>>)
    ELSE IF document.t # "map" THEN Raise("TypeError")
    ELSE adles_func(key, Get(document, key))

RECURSIVE adles_exercise_loop(_, _, _)
adles_exercise_loop(document, i, acc) ==
    IF i > Len(funcs) \/ acc.exc # "" THEN acc
    ELSE adles_exercise_loop(document, i + 1, Then(acc, adles_exercise_key(document, funcs[i])))

verify_exercise_syntax(document) ==
    IF InRaises(document) THEN Raise("TypeError")
    ELSE adles_exercise_loop(document, 1, Ok0)

(***************************************************************************)
(* automation/parser.py: verify_syntax                                     *)
(***************************************************************************)
automation_func(key, section) ==
    CASE key = "metadata" -> _verify_metadata_syntax(section)
      [] key = "groups" -> automation_verify_groups_syntax(section)
      [] key = "services" -> automation_verify_services_syntax(section)
      [] key = "resources" -> automation_verify_resources_syntax(section)
      [] key = "networks" -> automation_verify_networks_syntax(section)
      [] key = "folders" -> automation_verify_folders_syntax(section)

\* line 289: w, e = func(spec[key]): the checker's first count (its errors)
\* is bound to w, its second (its warnings) to e
Unpacked_w_e(r) == [e |-> r.w, w |-> r.e, log |-> r.log, exc |-> r.exc]

\* lines 279-291: the body of the loop for one key of funcs
automation_syntax_key(document, key) ==
    IF ~PyIn(key, document)
    THEN IF key \in required
         THEN Error("Required definition %s was not found", <<key>>)
         ELSE IF key \in optional
         THEN Log("debug", "Optional definition \"%s\" was not found", <<key>>)
         ELSE Warning("Unknown definition found: %s", <<key>>)
    ELSE IF document.t # "map" THEN Raise("TypeError")
    ELSE Unpacked_w_e(automation_func(key, Get(document, key)))

RECURSIVE automation_syntax_loop(_, _, _)
automation_syntax_loop(document, i, acc) ==
    IF i > Len(funcs) \/ acc.exc # "" THEN acc
    ELSE automation_syntax_loop(document, i + 1,
                                Then(acc, automation_syntax_key(document, funcs[i])))

verify_syntax(document) ==
    IF InRaises(document) THEN Raise("TypeError")
    ELSE automation_syntax_loop(document, 1, Ok0)

(***************************************************************************)
(* adles/parser.py: verify_package_syntax and check_syntax                 *)
(***************************************************************************)
verify_package_syntax(package) ==
    IF InRaises(package) THEN Raise("TypeError")
    ELSE
    Then(IF ~PyIn("metadata", package)
         THEN Error("Metadata section not specified for package!", <<>>)
         ELSE IF package.t # "map" THEN Raise("TypeError")
         ELSE Then(CheckedWarnings(_checker(<<"name", "description", "version">>,
                                            <<"metadata">>, Get(package, "metadata"),
                                            "warnings")),
                   CheckedErrors(_checker(<<"timestamp", "tag">>, <<"metadata">>,
                                          Get(package, "metadata"), "errors"))),
         IF ~PyIn("contents", package)
         THEN Error("Contents section not specified for package!", <<>>)
         ELSE IF package.t # "map" THEN Raise("TypeError")
         ELSE Then(CheckedWarnings(_checker(<<"infrastructure", "scoring", "results",
                                              "templates", "materials">>,
                                            <<"contents">>, Get(package, "contents"),
                                            "warnings")),
                   CheckedErrors(_checker(<<"environment">>, <<"contents">>,
                                          Get(package, "contents"), "errors"))))

\* what a call leaves behind: the counts and diagnostics, the exception, and
\* the value returned when the function returns a document
Returned(r, value) ==
    [e |-> r.e, w |-> r.w, log |-> r.log, exc |-> r.exc, value |-> value]

\* check_syntax_verdict accepting on the warning count instead of the error count
check_syntax_verdict_on_warnings(document, r) ==
    IF r.exc # "" THEN Returned(r, YNone)
    ELSE IF r.w = 0
    THEN Returned(Then(r, Log("info", "Syntax check successful!", <<>>)), document)
    ELSE Returned(Then(r, Log("error", "Syntax check failed! Errors: %d\tWarnings: %d",
                              <<ToString(r.e), ToString(r.w)>>)), YNone)

\* lines 496-504: the verdict on the verifier's counts
check_syntax_verdict(document, r) ==
    IF r.exc # "" THEN Returned(r, YNone)
    ELSE IF r.e = 0 /\ r.w = 0
    THEN Returned(Then(r, Log("info", "Syntax check successful!", <<>>)), document)
    ELSE IF r.e = 0
    THEN Returned(Then(r, Log("info", "Syntax check successful, but there were %d warnings",
                              <<ToString(r.w)>>)), document)
    ELSE Returned(Then(r, Log("error", "Syntax check failed! Errors: %d\tWarnings: %d",
                              <<ToString(r.e), ToString(r.w)>>)), YNone)

check_syntax(specfile_path, spec_type) ==
    IF ~exists(specfile_path)
    THEN Returned(Log("error", "Could not find specification file in path %s",
                      <<specfile_path>>), YNone)
    ELSE LET p == parse_file(specfile_path)
             ingested == Then(Parsed(p),
                         Then(Log("info", "Successfully ingested specification file %s",
                                  <<specfile_path>>),
                              Log("info", "Checking syntax...", <<>>)))
         IN IF p.doc.t = "none"
            THEN Returned(Then(Parsed(p),
                               Log("error", "Failed to ingest specification file %s",
                                   <<specfile_path>>)), YNone)
            ELSE IF spec_type = "exercise"
            THEN check_syntax_verdict(p.doc, Then(ingested, verify_exercise_syntax(p.doc)))
            ELSE IF spec_type = "package"
            THEN check_syntax_verdict(p.doc, Then(ingested, verify_package_syntax(p.doc)))
            ELSE IF spec_type = "infra"
            THEN check_syntax_verdict(p.doc, Then(ingested, verify_infra_syntax(p.doc)))
            ELSE Returned(Then(ingested,
                               Log("error", "Unknown specification type in for check_syntax: %s",
                                   <<spec_type>>)), YNone)

(***************************************************************************)
(* The documents of the model.  A mapping of validated entries has at most *)
(* MaxEntries entries, named in document order; all of them are drawn from *)
(* a small set of siblings but one, which is drawn from the full set.      *)
(***************************************************************************)
Absent == [t |-> "absent", v |-> ""]

\* the mapping of the pairs whose value is present
Present(pairs) == YMap(SelectSeq(pairs, LAMBDA p : p.v.t # "absent"))

Names == <<"a", "b", "c", "d">>
Named(f) == YMap([i \in DOMAIN f |-> KV(Names[i], f[i])])

FocusMaps(Full, Small) ==
    UNION {{Named(f) : f \in {g \in [1..n -> Full \cup Small] :
                                 Cardinality({i \in 1..n : g[i] \notin Small}) <= 1}}
           : n \in 0..MaxEntries}

\* ---- groups
GroupDef(inst, ad, file, users) ==
    Present(<<KV("instances", inst), KV("ad-group", ad), KV("filename", file),
              KV("user-list", users)>>)

GroupDefs ==
    {GroupDef(i, a, f, u) : i \in {Absent, YInt(2)}, a \in {Absent, YStr("CN=Students")},
                            f \in {Absent, YStr("users.json")},
                            u \in {Absent, YList(<<"alice">>)}}
    \cup {GroupDef(YStr("two"), a, Absent, Absent) : a \in {Absent, YStr("CN=Students")}}
    \cup {GroupDef(i, Absent, Absent, YStr("alice")) : i \in {Absent, YInt(2)}}
    \cup {GroupDef(Absent, YInt(5), Absent, Absent),
          GroupDef(Absent, Absent, YStr("bad.json"), Absent)}

CleanGroup == GroupDef(Absent, YStr("CN=Students"), Absent, Absent)
BadGroup == GroupDef(Absent, Absent, Absent, Absent)
GroupsSections == FocusMaps(GroupDefs, {CleanGroup, BadGroup})

\* ---- services
ServiceDef(tmpl, image, docker, compose, nics, note) ==
    Present(<<KV("template", tmpl), KV("image", image), KV("dockerfile", docker),
              KV("compose-file", compose), KV("network-interfaces", nics),
              KV("note", note)>>)

CleanService == ServiceDef(YStr("tmpl"), Absent, Absent, Absent, YList(<<"net">>), Absent)
BadService == ServiceDef(Absent, Absent, Absent, Absent, Absent, Absent)
ServiceDefs ==
    {ServiceDef(t, i, d, c, Absent, Absent) :
        t \in {Absent, YStr("tmpl")}, i \in {Absent, YStr("img")},
        d \in {Absent, YStr("Dockerfile")}, c \in {Absent, YStr("compose.yml")}}
    \cup {CleanService,
          ServiceDef(YStr("tmpl"), Absent, Absent, Absent, YStr("net"), YInt(3)),
          Present(<<KV("template", YStr("tmpl")),
                    KV("provisioner", YMap(<<KV("name", YStr("ansible"))>>))>>)}
ServicesSections == FocusMaps(ServiceDefs, {CleanService, BadService})

\* ---- networks
NetDef(subnet, vlan, inc) ==
    Present(<<KV("subnet", subnet), KV("vlan", vlan), KV("increment", inc)>>)

Subnets == {"10.0.0.0/24", "172.16.0.0/16", "192.168.1.0/24", "8.8.8.0/24", "172.32.0.0/16",
            "127.0.0.0/8", "224.0.0.0/4", "240.0.0.0/4", "10.0.0.0/33"}
Vlans == {YInt(100), YInt(VlanLimit - 1), YInt(VlanLimit), YInt(2500)}

CleanNet == NetDef(YStr("10.0.0.0/24"), Absent, Absent)
LooseNet == NetDef(Absent, Absent, Absent)
NetDefs ==
    {NetDef(YStr(s), Absent, Absent) : s \in Subnets}
    \cup {NetDef(YStr("10.0.0.0/24"), v, Absent) : v \in Vlans}
    \cup {NetDef(YStr("10.0.0.0/33"), YInt(2500), Absent),
          NetDef(Absent, YInt(100), YBool(TRUE)),
          NetDef(YStr("10.0.0.0/24"), YStr("native"), Absent),
          NetDef(YStr("10.0.0.0/24"), Absent, YBool(TRUE)),
          NetDef(YStr("10.0.0.0/24"), Absent, YStr("yes")),
          LooseNet}

NetClasses == {"unique-networks", "generic-networks", "base-networks", "other-networks"}

NetworksSections ==
    \* one class, every definition
    {YMap(<<KV(c, m)>>) : c \in NetClasses, m \in FocusMaps(NetDefs, {CleanNet, LooseNet})}
    \* a class after unique-networks or before generic-networks
    \cup {YMap(<<KV("unique-networks", Named(<<CleanNet>>)), KV(c, m)>>) :
             c \in NetClasses \ {"unique-networks"},
             m \in FocusMaps(NetDefs, {CleanNet})}
    \cup {YMap(<<KV(c, Named(<<d>>)), KV("generic-networks", Named(<<LooseNet>>))>>) :
             c \in NetClasses \ {"generic-networks"}, d \in {CleanNet, LooseNet}}
    \cup {YMap(<<>>)}

\* ---- folders
FolderService(service, networks, scoring) ==
    Present(<<KV("service", service), KV("networks", networks), KV("scoring", scoring)>>)

BaseFolder(group, inst, service) ==
    Present(<<KV("group", group), KV("instances", inst),
              KV("services", Named(<<service>>))>>)

CleanFolderService == FolderService(YStr("web"), YList(<<"net">>), Absent)
CleanBase == BaseFolder(YStr("students"), Absent, CleanFolderService)
NoGroupBase == BaseFolder(Absent, Absent, CleanFolderService)

\* the values a folder entry that holds no child folders can have
Leaves ==
    {CleanBase, NoGroupBase, YStr("oops"),
     BaseFolder(YStr("students"), Absent, FolderService(Absent, Absent, Absent)),
     BaseFolder(YStr("students"), Absent, FolderService(YStr("web"), YStr("net"), Absent)),
     BaseFolder(YStr("students"), Absent,
                FolderService(YStr("web"), Absent, YMap(<<KV("ports", YList(<<"80">>))>>))),
     BaseFolder(YStr("students"), Absent,
                FolderService(YStr("web"), Absent,
                              YMap(<<KV("ports", YList(<<"80">>)),
                                     KV("protocols", YList(<<"tcp">>)),
                                     KV("criteria", YStr("up"))>>)))}
    \cup {BaseFolder(YStr("students"), i, CleanFolderService) :
             i \in {YInt(3), YMap(<<KV("number", YInt(3))>>),
                    YMap(<<KV("number", YStr("three"))>>),
                    YMap(<<KV("size-of", YStr("students"))>>), YMap(<<>>)}}

\* a mapping of folder entries that are all leaves
LeafMaps == FocusMaps(Leaves, {NoGroupBase})

\* a mapping that holds the parent folder "p" of the entries of m: alone,
\* after a sibling, or before a sibling and with the reserved keys among its
\* entries
Around(m, how) ==
    CASE how = "alone" -> YMap(<<KV("p", m)>>)
      [] how = "after" -> YMap(<<KV("a", NoGroupBase), KV("p", m)>>)
      [] how = "reserved" ->
            YMap(<<KV("p", YMap(<<KV("group", YStr("students")), KV("instances", YInt(2)),
                                  KV("master-group", YStr("staff")),
                                  KV("description", YStr("a parent")),
                                  KV("enabled", YBool(TRUE))>>
                                \o m.v)),
                   KV("z", NoGroupBase)>>)

RECURSIVE FolderMaps(_)
\* the mappings of folder entries nested at most d levels above the leaves
FolderMaps(d) ==
    IF d = 0 THEN LeafMaps
    ELSE LET below == FolderMaps(d - 1)
         IN below \cup {Around(m, how) : m \in below, how \in {"alone", "after", "reserved"}}

FoldersSections == FolderMaps(MaxDepth)

\* ---- metadata and the infrastructure file
MetaDef(name, prefix, file, description, conf) ==
    Present(<<KV("name", name), KV("prefix", prefix), KV("infra-file", file),
              KV("description", description), KV("version", YStr("1.0")),
              KV("folder-name", YStr("lab")),
              KV("infrastructure-config-file", conf)>>)

CleanMeta == MetaDef(YStr("lab"), YStr("L"), YStr("infra.yaml"), YStr("a lab"), Absent)
MetaDefs ==
    {MetaDef(n, YStr("L"), f, d, c) :
        n \in {Absent, YStr("lab")},
        f \in {Absent, YStr("infra.yaml"), YStr("broken.yaml"), YStr("nowhere.yaml")},
        d \in {Absent, YStr("a lab")},
        c \in {Absent, YStr("infra.yaml")}}
    \cup {MetaDef(YStr("lab"), Absent, Absent, Absent, YStr("nowhere.yaml")),
          MetaDef(YStr("lab"), Absent, Absent, Absent, YStr("broken.yaml")),
          YMap(<<>>)}

VsphereConfig(hostname, login, hosts, thresholds) ==
    Present(<<KV("hostname", hostname), KV("template-folder", YStr("templates")),
              KV("port", YInt(443)), KV("login-file", login),
              KV("datacenter", YStr("dc")), KV("datastore", YStr("ds")),
              KV("server-root", YStr("root")), KV("vswitch", YStr("vs")),
              KV("host-list", hosts), KV("thresholds", thresholds)>>)

CleanVsphere == VsphereConfig(YStr("vc"), YStr("login.json"), Absent, Absent)
CleanInfra == YMap(<<KV("vmware-vsphere", CleanVsphere)>>)
InfraDocs ==
    {YMap(<<KV("vmware-vsphere", c)>>) :
        c \in {CleanVsphere,
               VsphereConfig(Absent, YStr("bad.json"), YStr("h1"), Absent),
               VsphereConfig(YStr("vc"), Absent, YList(<<"h1">>),
                             YMap(<<KV("folder", YInt(10))>>))}}
    \cup {YMap(<<KV("docker", c)>>) :
             c \in {YMap(<<KV("url", YStr("unix://"))>>),
                    YMap(<<KV("registry", YMap(<<KV("url", YStr("r"))>>))>>)}}
    \cup {YMap(<<KV(pf, YMap(<<>>))>>) :
             pf \in {"amazon-aws", "digital-ocean", "hyper-v", "openstack"}}
    \cup {YMap(<<KV("vmware-vsphere", CleanVsphere), KV("amazon-aws", YMap(<<>>))>>),
          YMap(<<KV("amazon-aws", YMap(<<>>)), KV("vmware-vsphere", CleanVsphere)>>),
          YMap(<<KV("docker", YMap(<<KV("url", YStr("unix://"))>>)),
                 KV("hyper-v", YMap(<<KV("url", YStr("x"))>>))>>),
          YMap(<<KV("platform", YStr("vmware vsphere")), KV("server-hostname", YStr("vc")),
                 KV("server-port", YInt(443)), KV("login-file", YStr("login.json")),
                 KV("template-folder", YStr("templates")), KV("datacenter", YStr("dc")),
                 KV("datastore", YStr("ds"))>>),
          YMap(<<>>), YNone}

\* ---- whole specification documents
Document(metadata, groups, services, resources, networks, folders) ==
    Present(<<KV("metadata", metadata), KV("groups", groups), KV("services", services),
              KV("resources", resources), KV("networks", networks),
              KV("folders", folders)>>)

CleanGroups == Named(<<CleanGroup>>)
CleanServices == Named(<<CleanService>>)
CleanResources == YMap(<<KV("lab", YStr("l")), KV("resource", YStr("r"))>>)
CleanNetworks == YMap(<<KV("unique-networks", Named(<<CleanNet>>))>>)
CleanFolders == Named(<<CleanBase>>)

\* every section absent, clean, or with a finding of its own
SectionDocuments ==
    {Document(m, g, s, r, n, f) :
        m \in {Absent, CleanMeta,
               MetaDef(YStr("lab"), YStr("L"), YStr("infra.yaml"), Absent, Absent)},
        g \in {Absent, CleanGroups, Named(<<BadGroup>>)},
        s \in {Absent, CleanServices, Named(<<BadService>>)},
        r \in {Absent, CleanResources, YMap(<<>>)},
        n \in {Absent, CleanNetworks, YMap(<<KV("unique-networks", Named(<<LooseNet>>))>>)},
        f \in {Absent, CleanFolders, Named(<<NoGroupBase>>)}}

\* one section drawn from all its values, the others clean
FocusDocuments ==
    {Document(CleanMeta, g, CleanServices, CleanResources, CleanNetworks, CleanFolders) :
        g \in GroupsSections}
    \cup {Document(CleanMeta, CleanGroups, s, CleanResources, CleanNetworks, CleanFolders) :
             s \in ServicesSections}
    \cup {Document(CleanMeta, CleanGroups, CleanServices, CleanResources, n, CleanFolders) :
             n \in NetworksSections}
    \cup {Document(CleanMeta, CleanGroups, CleanServices, CleanResources, CleanNetworks, f) :
             f \in FoldersSections}

\* documents that hold top-level keys that name no section
UnknownKeyDocuments ==
    {YMap(d.v \o extra) :
        d \in {Document(CleanMeta, CleanGroups, CleanServices, CleanResources, CleanNetworks,
                        CleanFolders),
               Document(CleanMeta, CleanGroups, CleanServices, Absent, CleanNetworks,
                        CleanFolders),
               Document(CleanMeta, Named(<<BadGroup>>), CleanServices, CleanResources,
                        YMap(<<KV("unique-networks", Named(<<LooseNet>>))>>), Absent)},
        extra \in {<<KV("extras", YMap(<<>>))>>,
                   <<KV("extras", YStr("x")), KV("scoring", YMap(<<>>))>>}}

\* the specification file and the infrastructure file, as parsed
Worlds ==
    {[spec |-> d, infra |-> CleanInfra] :
        d \in SectionDocuments \cup FocusDocuments \cup UnknownKeyDocuments}
    \cup {[spec |-> Document(m, CleanGroups, CleanServices, CleanResources, CleanNetworks,
                             CleanFolders),
           infra |-> i] : m \in MetaDefs, i \in InfraDocs}
    \* a specification file that holds an infrastructure or package document,
    \* or nothing
    \cup {[spec |-> d, infra |-> CleanInfra] :
             d \in InfraDocs \cup {YMap(<<KV("metadata", YMap(<<KV("timestamp", YStr("t")),
                                                                 KV("tag", YStr("v1"))>>)),
                                         KV("contents", YMap(<<KV("environment",
                                                                  YStr("e"))>>))>>)}}

(***************************************************************************)
(* The state machine: the files hold some documents and one function of   *)
(* the parsers is called on them.  No function changes a document or a     *)
(* file, so what a call returns does not depend on the calls before it: a  *)
(* behaviour is one call.                                                  *)
(***************************************************************************)
NoCall == <<>>
\* no run of _verify_folders_syntax in progress
NoWalk == [root |-> [t |-> "none", v |-> ""], stack |-> <<>>, e |-> 0, w |-> 0,
           log |-> <<>>, exc |-> "", visits |-> 0, done |-> FALSE]

\* no vSphere server is connected to
NoServer == [inv |-> <<>>, log |-> <<>>, calls |-> <<>>, exc |-> "",
             interface |-> "none", root_folder |-> 0, steps |-> 0]

\* destroy_vms.py is not running
NoScript == [pc |-> "none", asked |-> <<>>, vm |-> 0, folder |-> 0, options |-> <<>>]

Init ==
    /\ \E world \in Worlds : spec = world.spec /\ infra = world.infra
    /\ called = NoCall
    /\ ret = Returned(Ok0, YNone)
    /\ walk = NoWalk
    /\ vs = NoServer
    /\ script = NoScript

\* adles/parser.py verify_exercise_syntax(spec)
Call_verify_exercise_syntax ==
    /\ called = NoCall
    /\ spec.t = "map"
    /\ called' = <<"adles", "verify_exercise_syntax">>
    /\ ret' = Returned(verify_exercise_syntax(spec), YNone)
    /\ UNCHANGED <<spec, infra, walk, vs, script>>

\* automation/parser.py verify_syntax(spec)
Call_verify_syntax ==
    /\ called = NoCall
    /\ spec.t = "map"
    /\ called' = <<"automation", "verify_syntax">>
    /\ ret' = Returned(verify_syntax(spec), YNone)
    /\ UNCHANGED <<spec, infra, walk, vs, script>>

\* a section checker of adles/parser.py on that section of the document
Call_adles_checker(key) ==
    /\ called = NoCall
    /\ spec.t = "map" /\ PyIn(key, spec)
    /\ called' = <<"adles", key>>
    /\ ret' = Returned(adles_func(key, Get(spec, key)), YNone)
    /\ UNCHANGED <<spec, infra, walk, vs, script>>

\* a section checker of automation/parser.py on that section of the document
Call_automation_checker(key) ==
    /\ called = NoCall
    /\ spec.t = "map" /\ PyIn(key, spec)
    /\ called' = <<"automation", key>>
    /\ ret' = Returned(automation_func(key, Get(spec, key)), YNone)
    /\ UNCHANGED <<spec, infra, walk, vs, script>>

SpecPaths == {"spec.yaml", "broken.yaml", "nowhere.yaml"}
SpecTypes == {"exercise", "package", "infra", "environment"}

\* adles/parser.py check_syntax(specfile_path, spec_type)
Call_check_syntax(specfile_path, spec_type) ==
    /\ called = NoCall
    /\ called' = <<"check_syntax", specfile_path, spec_type>>
    /\ ret' = check_syntax(specfile_path, spec_type)
    /\ UNCHANGED <<spec, infra, walk, vs, script>>

Next ==
    \/ Call_verify_exercise_syntax
    \/ Call_verify_syntax
    \/ \E key \in required \cup optional : Call_adles_checker(key)
    \/ \E key \in required \cup optional : Call_automation_checker(key)
    \/ \E path \in SpecPaths, type \in SpecTypes : Call_check_syntax(path, type)

Spec == Init /\ [][Next]_vars

(***************************************************************************)
(* Properties                                                              *)
(***************************************************************************)
VerifierCalled ==
    called \in {<<"adles", "verify_exercise_syntax">>, <<"automation", "verify_syntax">>}

RequiredSections == {"metadata", "groups", "services", "networks", "folders"}
MissingSections == {k \in RequiredSections : ~PyIn(k, spec)}

\* the diagnostics of the last call that are errors or warnings
Findings == {i \in 1..Len(ret.log) : ret.log[i].lvl \in {"error", "warning"}}
IsRequiredNotFound(d, k) ==
    d.lvl = "error" /\ d.msg = "Required definition %s was not found" /\ d.args = <<k>>

\* C1: whichever top-level verifier ran (verify_exercise_syntax,
\* verify_syntax), every absent required section is reported by exactly one
\* "Required definition" error and no present one is; the error count is at
\* least the number of absent required sections (so at least 1 when one is
\* absent), and exactly that number, with no warning, when nothing else was
\* found, whether or not the optional `resources` section is there; an absent
\* `resources` is reported below warning level only.
C1_MissingRequiredSections ==
    (VerifierCalled /\ ret.exc = "") =>
        /\ \A k \in RequiredSections :
              Count(ret.log, LAMBDA d : IsRequiredNotFound(d, k))
                = (IF k \in MissingSections THEN 1 ELSE 0)
        /\ ret.e >= Cardinality(MissingSections)
        /\ (MissingSections # {} => ret.e >= 1)
        /\ (\A i \in Findings : \E k \in RequiredSections : IsRequiredNotFound(ret.log[i], k))
              => (ret.e = Cardinality(MissingSections) /\ ret.w = 0)
        /\ ~PyIn("resources", spec)
              => /\ \A i \in Findings : "resources" \notin {ret.log[i].args[j] :
                                                              j \in 1..Len(ret.log[i].args)}
                 /\ \E i \in 1..Len(ret.log) :
                       /\ ret.log[i].lvl \in {"info", "debug"}
                       /\ ret.log[i].args = <<"resources">>

\* C1 witness: a verifier ran on a document that lacks two required sections
\* and `resources`, and returned exactly two errors and no warning
C1_Witness ==
    /\ VerifierCalled /\ ret.exc = ""
    /\ Cardinality(MissingSections) = 2
    /\ ~PyIn("resources", spec)
    /\ ret.e = 2 /\ ret.w = 0

\* what the section checker of `key` returns on the document's section, and
\* nothing for an absent section
AdlesPart(key) == IF PyIn(key, spec) THEN adles_func(key, Get(spec, key)) ELSE Ok0
AutomationPart(key) == IF PyIn(key, spec) THEN automation_func(key, Get(spec, key)) ELSE Ok0

\* verify_exercise_syntax returns the absent required sections plus the
\* checkers' errors, and the checkers' warnings
C2_AdlesSummedInOrder ==
    (called = <<"adles", "verify_exercise_syntax">> /\ ret.exc = "") =>
        /\ ret.e = Cardinality(MissingSections)
                   + AdlesPart("metadata").e + AdlesPart("groups").e
                   + AdlesPart("services").e + AdlesPart("resources").e
                   + AdlesPart("networks").e + AdlesPart("folders").e
        /\ ret.w = AdlesPart("metadata").w + AdlesPart("groups").w
                   + AdlesPart("services").w + AdlesPart("resources").w
                   + AdlesPart("networks").w + AdlesPart("folders").w

\* the same of verify_syntax
C2_AutomationSummedInOrder ==
    (called = <<"automation", "verify_syntax">> /\ ret.exc = "") =>
        /\ ret.e = Cardinality(MissingSections)
                   + AutomationPart("metadata").e + AutomationPart("groups").e
                   + AutomationPart("services").e + AutomationPart("resources").e
                   + AutomationPart("networks").e + AutomationPart("folders").e
        /\ ret.w = AutomationPart("metadata").w + AutomationPart("groups").w
                   + AutomationPart("services").w + AutomationPart("resources").w
                   + AutomationPart("networks").w + AutomationPart("folders").w

\* C2: the verifier returns (E, W) with E = absent required sections + the
\* error counts of the section checkers of the present sections, and W = the
\* sum of their warning counts, in verify_exercise_syntax and in verify_syntax
C2_CountsSummedInOrder == C2_AdlesSummedInOrder /\ C2_AutomationSummedInOrder

\* the verifier check_syntax selects for a specification type, on the document
SelectedVerifier(spec_type) ==
    CASE spec_type = "exercise" -> verify_exercise_syntax(spec)
      [] spec_type = "package" -> verify_package_syntax(spec)
      [] spec_type = "infra" -> verify_infra_syntax(spec)

ReportsSuccess(d) ==
    d.msg \in {"Syntax check successful!",
               "Syntax check successful, but there were %d warnings"}

\* C3: check_syntax returns the parsed specification exactly when the file
\* exists and parses, the type is known and the selected verifier returned
\* errors = 0 (whatever the warnings); with errors > 0, a missing or
\* unparsable file or an unknown type it returns None and logs no success
C3_AcceptsIffNoErrors ==
    (Len(called) = 3 /\ called[1] = "check_syntax" /\ ret.exc = "") =>
        LET path == called[2]
            type == called[3]
            readable == path = "spec.yaml" /\ spec.t # "none"
            known == type \in {"exercise", "package", "infra"}
        IN /\ (ret.value.t # "none") <=>
                  (readable /\ known /\ SelectedVerifier(type).exc = ""
                            /\ SelectedVerifier(type).e = 0)
           /\ ret.value.t # "none" => ret.value = spec
           /\ (readable /\ known /\ SelectedVerifier(type).e > 0) => ret.value.t = "none"
           /\ (ret.value.t = "none") => \A i \in 1..Len(ret.log) : ~ReportsSuccess(ret.log[i])
           /\ (ret.value.t # "none") => \E i \in 1..Len(ret.log) : ReportsSuccess(ret.log[i])

\* C3 witness: check_syntax returned a specification whose verifier counted
\* warnings and no error
C3_Witness ==
    /\ called = <<"check_syntax", "spec.yaml", "exercise">>
    /\ ret.value = spec
    /\ ret.e = 0 /\ ret.w > 0

\* the diagnostics of the last call with this level, message and arguments
Logged(lvl, msg, args) ==
    Count(ret.log, LAMBDA d : d.lvl = lvl /\ d.msg = msg /\ d.args = args)
\* the diagnostics of the last call with one of these messages, at any level
LoggedAny(msgs) == Count(ret.log, LAMBDA d : d.msg \in msgs)
\* every error and every warning counted is one diagnostic of that level
CountsAreDiagnostics ==
    ret.e = NumLogged(ret.log, "error") /\ ret.w = NumLogged(ret.log, "warning")

RECURSIVE C4_AdlesEntrySum(_, _)
\* the counts of adles' _verify_folders_syntax on each entry from i on, taken
\* alone, summed
C4_AdlesEntrySum(folders, i) ==
    IF i > Len(folders.v) THEN <<0, 0>>
    ELSE LET r == adles_verify_folders_syntax(YMap(<<folders.v[i]>>))
             rest == C4_AdlesEntrySum(folders, i + 1)
         IN <<r.e + rest[1], r.w + rest[2]>>

RECURSIVE C4_AutomationEntrySum(_, _)
C4_AutomationEntrySum(folders, i) ==
    IF i > Len(folders.v) THEN <<0, 0>>
    ELSE LET r == automation_verify_folders_syntax(YMap(<<folders.v[i]>>))
             rest == C4_AutomationEntrySum(folders, i + 1)
         IN <<r.e + rest[1], r.w + rest[2]>>

\* an entry that holds child folders: a mapping without `services` under a
\* key that is no reserved key
IsParentEntry(kv) ==
    /\ kv.k \notin {"group", "master-group", "instances", "description", "enabled"}
    /\ kv.v.t = "map" /\ ~PyIn("services", kv.v)

\* adles' folder validation is additive over the entries and over the
\* recursive call on a parent folder
C4_AdlesAdditive ==
    (called = <<"adles", "folders">> /\ ret.exc = "") =>
        LET folders == Get(spec, "folders")
        IN /\ <<ret.e, ret.w>> = C4_AdlesEntrySum(folders, 1)
           /\ \A i \in 1..Len(folders.v) : IsParentEntry(folders.v[i]) =>
                 LET alone == adles_verify_folders_syntax(YMap(<<folders.v[i]>>))
                     local == adles_folder_instances(folders.v[i].k, folders.v[i].v)
                     below == adles_verify_folders_syntax(folders.v[i].v)
                 IN alone.e = local.e + below.e /\ alone.w = local.w + below.w

\* the same of automation's
C4_AutomationAdditive ==
    (called = <<"automation", "folders">> /\ ret.exc = "") =>
        LET folders == Get(spec, "folders")
        IN /\ <<ret.e, ret.w>> = C4_AutomationEntrySum(folders, 1)
           /\ \A i \in 1..Len(folders.v) : IsParentEntry(folders.v[i]) =>
                 LET alone == automation_verify_folders_syntax(YMap(<<folders.v[i]>>))
                     local == automation_folder_instances(folders.v[i].k, folders.v[i].v)
                     below == automation_verify_folders_syntax(folders.v[i].v)
                 IN alone.e = local.e + below.e /\ alone.w = local.w + below.w

\* C4: in both parsers, what _verify_folders_syntax returns is the sum over
\* the entries of the mapping of what each entry yields, and a parent entry
\* yields its local findings plus the counts of the recursive call; nothing
\* counted for an earlier sibling is lost when a later one is a parent folder
C4_FoldersAdditive == C4_AdlesAdditive /\ C4_AutomationAdditive

\* ---- networks: the entries <<c, j>> of the section (class c, entry j)
Networks == Get(spec, "networks")
NetEntries ==
    {cj \in (1..Len(Networks.v)) \X (1..Len(Names)) :
        Networks.v[cj[1]].v.t = "map" /\ cj[2] <= Len(Networks.v[cj[1]].v.v)}
ClassOf(cj) == Networks.v[cj[1]].k
KeyOf(cj) == Networks.v[cj[1]].v.v[cj[2]].k
DefOf(cj) == Networks.v[cj[1]].v.v[cj[2]].v
SubnetOf(cj) == IF PyIn("subnet", DefOf(cj)) THEN Get(DefOf(cj), "subnet").v ELSE "(none)"

\* adles' _verify_networks_syntax went through the entries and returned
AdlesEntriesChecked ==
    /\ called = <<"adles", "networks">> /\ ret.exc = ""
    /\ PyIn("unique-networks", Networks) \/ PyIn("generic-networks", Networks)

C5_Malformed == {"10.0.0.0/33"}
C5_InvalidSpace == {"127.0.0.0/8", "224.0.0.0/4", "240.0.0.0/4"}
C5_Public == {"8.8.8.0/24", "172.32.0.0/16"}
C5_Private == {"10.0.0.0/24", "172.16.0.0/16", "192.168.1.0/24"}
C5_SubnetMessages ==
    {"No subnet specified for %s %s", "Invalid format for subnet '%s'",
     "%s %s is in a invalid IP address space", "Non-private subnet used for %s %s"}

\* C5: in adles' _verify_network the subnet check of an entry yields one
\* warning when `subnet` is absent, one error when it is malformed (and the
\* VLAN check of that entry still runs), one error when it is reserved,
\* multicast or loopback, one warning when it is none of those and not
\* private, nothing when it is private, and never both an error and a warning
C5_SubnetCheck ==
    AdlesEntriesChecked =>
        /\ \A cj \in NetEntries :
              LET at == <<ClassOf(cj), KeyOf(cj)>>
              IN /\ Logged("warning", "No subnet specified for %s %s", at)
                      = (IF SubnetOf(cj) = "(none)" THEN 1 ELSE 0)
                 /\ Logged("error", "%s %s is in a invalid IP address space", at)
                      = (IF SubnetOf(cj) \in C5_InvalidSpace THEN 1 ELSE 0)
                 /\ Logged("warning", "Non-private subnet used for %s %s", at)
                      = (IF SubnetOf(cj) \in C5_Public THEN 1 ELSE 0)
                 /\ SubnetOf(cj) \in C5_Malformed =>
                       /\ Logged("error", "Invalid format for subnet '%s'", <<SubnetOf(cj)>>) >= 1
                       /\ (ClassOf(cj) = "unique-networks" /\ PyIn("vlan", DefOf(cj))
                              /\ Get(DefOf(cj), "vlan").v >= 2000)
                             => Logged("error", "VLAN must be less than 2000 for network %s",
                                       <<KeyOf(cj)>>) = 1
        /\ LoggedAny({"Invalid format for subnet '%s'"})
              = Cardinality({cj \in NetEntries : SubnetOf(cj) \in C5_Malformed})
        /\ LoggedAny(C5_SubnetMessages)
              = Cardinality({cj \in NetEntries : SubnetOf(cj) \notin C5_Private})
        /\ CountsAreDiagnostics

\* C5 witness: the entries were checked and among them are a malformed subnet
\* whose VLAN was refused too, and a public subnet
C5_Witness ==
    /\ AdlesEntriesChecked
    /\ \E cj \in NetEntries : SubnetOf(cj) \in C5_Malformed /\ PyIn("vlan", DefOf(cj))
    /\ ret.e = 2
    /\ Logged("error", "VLAN must be less than 2000 for network %s", <<"a">>) = 1

HasIntVlan(cj) == PyIn("vlan", DefOf(cj)) /\ Get(DefOf(cj), "vlan").t = "int"
C6_VlanMessages ==
    {"VLAN must be less than 2000 for network %s",
     "VLAN specification is not allowed for network %s"}

\* C6: in adles' _verify_network an entry with a `vlan` under unique-networks
\* yields one VLAN error when the value is >= 2000 and none below 2000; under
\* generic-networks it yields one VLAN error whatever the value
C6_VlanCheck ==
    AdlesEntriesChecked =>
        /\ \A cj \in NetEntries :
              /\ ClassOf(cj) = "unique-networks" =>
                    Logged("error", "VLAN must be less than 2000 for network %s", <<KeyOf(cj)>>)
                      = (IF HasIntVlan(cj) /\ Get(DefOf(cj), "vlan").v >= 2000 THEN 1 ELSE 0)
              /\ ClassOf(cj) = "generic-networks" =>
                    Logged("error", "VLAN specification is not allowed for network %s",
                           <<KeyOf(cj)>>)
                      = (IF PyIn("vlan", DefOf(cj)) THEN 1 ELSE 0)
        /\ LoggedAny({"VLAN must be less than 2000 for network %s"})
              = Cardinality({cj \in NetEntries : /\ ClassOf(cj) = "unique-networks"
                                                 /\ HasIntVlan(cj)
                                                 /\ Get(DefOf(cj), "vlan").v >= 2000})
        /\ CountsAreDiagnostics

\* C6 witness: a unique-networks entry with vlan 2000 was refused with one error
C6_Witness ==
    /\ AdlesEntriesChecked
    /\ \E cj \in NetEntries : /\ ClassOf(cj) = "unique-networks" /\ HasIntVlan(cj)
                              /\ Get(DefOf(cj), "vlan").v = 2000
    /\ ret.e = 1

\* C7: in adles' parser every entry that carries a `vlan` under a class other
\* than unique-networks (generic-networks, base-networks, any other key)
\* yields a VLAN error
C7_VlanOnlyUnderUnique ==
    AdlesEntriesChecked =>
        \A cj \in NetEntries :
            (ClassOf(cj) # "unique-networks" /\ PyIn("vlan", DefOf(cj)))
                => \E i \in 1..Len(ret.log) :
                      /\ ret.log[i].lvl = "error"
                      /\ ret.log[i].msg \in C6_VlanMessages
                      /\ ret.log[i].args = <<KeyOf(cj)>>

\* the networks checker of `parser` treats a section as claim C8 says
C8_ClassKeys(parser) ==
    (called = <<parser, "networks">> /\ ret.exc = "") =>
        IF \E c \in {"unique-networks", "generic-networks", "base-networks"} :
              PyIn(c, Networks)
        THEN /\ LoggedAny({"Network specification exists but is empty!"}) = 0
             /\ \A cj \in NetEntries : SubnetOf(cj) = "(none)" =>
                   Logged("warning", "No subnet specified for %s %s",
                          <<ClassOf(cj), KeyOf(cj)>>) = 1
        ELSE /\ ret.e = 1 /\ ret.w = 0
             /\ Len(ret.log) = 1
             /\ ret.log[1].msg = "Network specification exists but is empty!"

C8_Adles == C8_ClassKeys("adles")
C8_Automation == C8_ClassKeys("automation")

\* C8: in both parsers a networks section with none of unique-networks,
\* generic-networks, base-networks yields exactly one error and no per-entry
\* check; one with at least one of them (base-networks alone included) is
\* spared that error and has the entries of every class checked
C8_RecognizedClassKeys == C8_Adles /\ C8_Automation

\* ---- groups
Groups == Get(spec, "groups")
Mechanisms(value) == {m \in {"ad-group", "filename", "user-list"} : PyIn(m, value)}
IsTemplateGroup(value) == PyIn("instances", value)
GroupsChecked(parser) == called = <<parser, "groups">> /\ ret.exc = ""
\* the errors logged about the group of this key
GroupErrors(key) == Count(ret.log, LAMBDA d : d.lvl = "error" /\ d.args = <<key>>)
C9_NoMethodMessages ==
    {"Invalid user specification method for group %s",
     "Invalid user specification method for template group %s"}
\* a group whose only mechanism is a `user-list` that is no sequence
UserListNoSequence(value) ==
    Mechanisms(value) = {"user-list"} /\ Get(value, "user-list").t # "list"

\* C9 as claimed: in both parsers a group with none of ad-group, filename,
\* user-list contributes exactly one error, and a group whose membership is a
\* user-list that is no sequence contributes an error
C9_Original ==
    \A parser \in {"adles", "automation"} : GroupsChecked(parser) =>
        \A i \in 1..Len(Groups.v) :
            /\ Mechanisms(Groups.v[i].v) = {} => GroupErrors(Groups.v[i].k) = 1
            /\ UserListNoSequence(Groups.v[i].v) => GroupErrors(Groups.v[i].k) >= 1

\* C9 as amended: in both parsers a group with none of ad-group, filename,
\* user-list contributes exactly one "Invalid user specification method"
\* error, which is its only error unless it is a template group whose
\* `instances` is no integer, which contributes one error more; a group whose
\* membership is a user-list that is no sequence contributes an error
C9_NoMechanismOneMethodError ==
    \A parser \in {"adles", "automation"} : GroupsChecked(parser) =>
        /\ \A i \in 1..Len(Groups.v) :
              LET key == Groups.v[i].k
                  value == Groups.v[i].v
              IN /\ Mechanisms(value) = {} =>
                       /\ Count(ret.log, LAMBDA d : /\ d.lvl = "error"
                                                    /\ d.msg \in C9_NoMethodMessages
                                                    /\ d.args = <<key>>) = 1
                       /\ GroupErrors(key)
                            = 1 + (IF IsTemplateGroup(value)
                                      /\ Get(value, "instances").t # "int" THEN 1 ELSE 0)
                 /\ UserListNoSequence(value) => GroupErrors(key) >= 1
        /\ CountsAreDiagnostics

\* C9 witness: a groups checker ran on a template group that has no mechanism
\* and whose `instances` is no integer, and logged two errors about it
C9_Witness ==
    /\ GroupsChecked("adles")
    /\ \E i \in 1..Len(Groups.v) :
          /\ Mechanisms(Groups.v[i].v) = {} /\ IsTemplateGroup(Groups.v[i].v)
          /\ GroupErrors(Groups.v[i].k) = 2

\* a group whose one mechanism is of the right type and allowed for its kind
WellFormedGroup(value) ==
    /\ Cardinality(Mechanisms(value)) = 1
    /\ PyIn("ad-group", value) => Get(value, "ad-group").t = "str"
    /\ PyIn("filename", value) => ~read_json_is_None(Get(value, "filename").v)
    /\ PyIn("user-list", value) => Get(value, "user-list").t = "list" /\ ~IsTemplateGroup(value)
    /\ IsTemplateGroup(value) => Get(value, "instances").t = "int"

\* C10: adles' _verify_groups_syntax finds no error in a group exactly when
\* one mechanism is present: two or three mechanisms yield an error, and so
\* does a template group whose only mechanism is user-list
C10_ExactlyOneMechanism ==
    GroupsChecked("adles") =>
        /\ (\E i \in 1..Len(Groups.v) : Cardinality(Mechanisms(Groups.v[i].v)) >= 2)
              => ret.e >= 1
        /\ (\E i \in 1..Len(Groups.v) : /\ IsTemplateGroup(Groups.v[i].v)
                                        /\ Mechanisms(Groups.v[i].v) = {"user-list"})
              => ret.e >= 1
        /\ (\A i \in 1..Len(Groups.v) : WellFormedGroup(Groups.v[i].v)) => ret.e = 0

\* what does hold of adles' _verify_groups_syntax: no mechanism, or user-list
\* alone on a template group, is an error; well-formed groups yield none
C10_ZeroOrMisusedMechanism ==
    GroupsChecked("adles") =>
        /\ (\E i \in 1..Len(Groups.v) :
               \/ Mechanisms(Groups.v[i].v) = {}
               \/ IsTemplateGroup(Groups.v[i].v) /\ Mechanisms(Groups.v[i].v) = {"user-list"})
              => ret.e >= 1
        /\ (\A i \in 1..Len(Groups.v) : WellFormedGroup(Groups.v[i].v)) => ret.e = 0

\* ---- services
Services == Get(spec, "services")
ServicesChecked(parser) == called = <<parser, "services">> /\ ret.exc = ""
\* the origins a service names: a template, an image, a compose file
Origins(value) == {o \in {"template", "image", "compose-file"} : PyIn(o, value)}
\* the "Invalid service definition" errors logged about the service of this key
OriginErrors(key) ==
    Count(ret.log, LAMBDA d : /\ d.lvl = "error"
                              /\ d.msg = "Invalid service definition: %s"
                              /\ d.args = <<key>>)

\* in both parsers a service that names no origin and no dockerfile yields
\* exactly one origin error, and a service with one origin yields none
C11_NoOriginOneError ==
    \A parser \in {"adles", "automation"} : ServicesChecked(parser) =>
        \A i \in 1..Len(Services.v) :
            LET value == Services.v[i].v
            IN /\ (Origins(value) = {} /\ ~PyIn("dockerfile", value))
                     => OriginErrors(Services.v[i].k) = 1
               /\ (Cardinality(Origins(value)) = 1 /\ ~PyIn("dockerfile", value))
                     => OriginErrors(Services.v[i].k) = 0

\* C11: in both parsers _verify_services_syntax finds no origin error in a
\* service exactly when one origin is named among template, image (with or
\* without dockerfile) and compose-file: no origin yields exactly one origin
\* error, two different origins yield an error, and a dockerfile without an
\* image yields an error
C11_ExactlyOneOrigin ==
    \A parser \in {"adles", "automation"} : ServicesChecked(parser) =>
        \A i \in 1..Len(Services.v) :
            LET value == Services.v[i].v
                key == Services.v[i].k
                dockerfile_alone == PyIn("dockerfile", value) /\ ~PyIn("image", value)
            IN /\ (OriginErrors(key) = 0)
                     <=> (Cardinality(Origins(value)) = 1 /\ ~dockerfile_alone)
               /\ Origins(value) = {} /\ ~PyIn("dockerfile", value) => OriginErrors(key) = 1
               /\ Cardinality(Origins(value)) >= 2 => ret.e >= 1
               /\ dockerfile_alone => ret.e >= 1

\* ---- folders: the reserved keys
Folders == Get(spec, "folders")
ReservedKeys == {"group", "master-group", "instances", "description", "enabled"}
FoldersChecked(parser) == called = <<parser, "folders">>
verify_folders(parser, folders) ==
    IF parser = "adles" THEN adles_verify_folders_syntax(folders)
    ELSE automation_verify_folders_syntax(folders)

RECURSIVE WithoutReserved(_)
\* the folder mapping without the reserved keys of its parent folders, at
\* every level
WithoutReserved(folders) ==
    LET kept == SelectSeq(folders.v, LAMBDA kv : kv.k \notin ReservedKeys)
    IN YMap([i \in 1..Len(kept) |->
                IF kept[i].v.t = "map" /\ ~PyIn("services", kept[i].v)
                THEN KV(kept[i].k, WithoutReserved(kept[i].v))
                ELSE kept[i]])

RECURSIVE HasReserved(_)
\* some parent folder of the mapping, at some level, holds a reserved key
HasReserved(folders) ==
    \E i \in 1..Len(folders.v) :
        \/ folders.v[i].k \in ReservedKeys
        \/ /\ folders.v[i].v.t = "map" /\ ~PyIn("services", folders.v[i].v)
           /\ HasReserved(folders.v[i].v)

\* the folder verifier of `parser` skips the reserved keys of parent folders:
\* it returns what it returns on the mapping without them and logs nothing
\* about a folder named by a reserved key
C12_Skipped(parser) ==
    (FoldersChecked(parser) /\ HasReserved(Folders)) =>
        LET bare == verify_folders(parser, WithoutReserved(Folders))
        IN bare.exc = "" =>
              /\ ret.exc = ""
              /\ ret.e = bare.e /\ ret.w = bare.w
              /\ \A i \in 1..Len(ret.log) : \A j \in 1..Len(ret.log[i].args) :
                    ret.log[i].args[j] \notin ReservedKeys

C12_Adles == C12_Skipped("adles")
C12_Automation == C12_Skipped("automation")

\* C12: in both parsers the folder verifier never treats the reserved keys
\* group, master-group, instances, description, enabled as child folders: at
\* every nesting level they are skipped, not descended into, and add no error
\* of their own, whatever the type of their value
C12_ReservedKeysSkipped == C12_Adles /\ C12_Automation

\* adles' verifier ran on a tree nested three levels deep whose parents hold
\* reserved keys, and returned
C12_AdlesReached ==
    /\ FoldersChecked("adles") /\ ret.exc = ""
    /\ \E i \in 1..Len(Folders.v) :
          /\ Folders.v[i].v.t = "map" /\ PyIn("group", Folders.v[i].v)
          /\ \E j \in 1..Len(Folders.v[i].v.v) :
                /\ Folders.v[i].v.v[j].v.t = "map"
                /\ PyIn("enabled", Folders.v[i].v.v[j].v)

(***************************************************************************)
(* adles/parser.py _verify_folders_syntax, step by step: `walk.stack` is   *)
(* the stack of its calls, innermost last; a frame holds the mapping of a  *)
(* call and the index of the entry its loop is at.  `walk.visits` counts   *)
(* the iterations of the loop over all calls.                              *)
(***************************************************************************)
Frame(folders, i) == [folders |-> folders, i |-> i]
Top == walk.stack[Len(walk.stack)]
\* the stack with the loop of the innermost call moved to its next entry
Advanced == [walk.stack EXCEPT ![Len(walk.stack)].i = @ + 1]

\* the counts and the log after the findings `r` are added to them
Counted(r) ==
    [walk EXCEPT !.e = @ + r.e, !.w = @ + r.w, !.log = @ \o r.log,
                 !.visits = @ + 1]

\* an exception raised in the loop body leaves every call
Unwound(r) ==
    [Counted(r) EXCEPT !.stack = <<>>, !.exc = r.exc, !.done = TRUE]

\* the entry is silently passed over instead of reported
verify_folders_entry_silent_on_non_mapping(key, value) ==
    IF key \in adles_keywords THEN Ok0
    ELSE IF value.t # "map" THEN Ok0
    ELSE Then(adles_folder_instances(key, value),
              IF PyIn("services", value) THEN adles_base_folder(key, value) ELSE Ok0)

\* lines 292-327: what one iteration of the loop finds before any recursion
verify_folders_entry_local(key, value) ==
    IF key \in adles_keywords THEN Ok0
    ELSE IF value.t # "map" THEN Error("Invalid configuration %s", <<key>>)
    ELSE Then(adles_folder_instances(key, value),
              IF PyIn("services", value) THEN adles_base_folder(key, value) ELSE Ok0)

\* lines 328-334: the iteration ends in a recursive call on the value
verify_folders_entry_recurses(key, value) ==
    key \notin adles_keywords /\ value.t = "map" /\ ~PyIn("services", value)

\* one iteration of the loop at line 291 in the innermost call
Step_verify_folders_entry ==
    /\ ~walk.done /\ walk.stack # <<>>
    /\ Top.i <= Len(Top.folders.v)
    /\ LET key == Top.folders.v[Top.i].k
           value == Top.folders.v[Top.i].v
           r == verify_folders_entry_local(key, value)
       IN walk' = IF r.exc # "" THEN Unwound(r)
                  ELSE IF verify_folders_entry_recurses(key, value)
                  THEN [Counted(r) EXCEPT !.stack = Append(Advanced, Frame(value, 1))]
                  ELSE [Counted(r) EXCEPT !.stack = Advanced]
    /\ UNCHANGED <<spec, infra, called, ret, vs, script>>

\* line 337: the loop of the innermost call is over and the call returns
Step_verify_folders_return ==
    /\ ~walk.done /\ walk.stack # <<>>
    /\ Top.i > Len(Top.folders.v)
    /\ walk' = [walk EXCEPT !.stack = SubSeq(@, 1, Len(@) - 1),
                            !.done = (Len(walk.stack) = 1)]
    /\ UNCHANGED <<spec, infra, called, ret, vs, script>>

\* line 280: _verify_folders_syntax(folders) is called on a folders section
Call_verify_folders_syntax(folders) ==
    /\ walk = NoWalk
    /\ walk' = [NoWalk EXCEPT !.root = folders, !.stack = <<Frame(folders, 1)>>]
    /\ UNCHANGED <<spec, infra, called, ret, vs, script>>

InitWalk ==
    /\ spec = YMap(<<>>)
    /\ infra = CleanInfra
    /\ called = NoCall
    /\ ret = Returned(Ok0, YNone)
    /\ walk = NoWalk
    /\ vs = NoServer
    /\ script = NoScript

NextWalk ==
    \/ walk = NoWalk /\ \E folders \in FoldersSections : Call_verify_folders_syntax(folders)
    \/ Step_verify_folders_entry
    \/ Step_verify_folders_return

SpecWalk == InitWalk /\ [][NextWalk]_vars

\* ---- the run of _verify_folders_syntax
WalkRoot == walk.root

RECURSIVE Levels(_)
\* the nesting levels of a folder mapping: itself and the parent folders in it
Levels(folders) ==
    LET below == {Levels(folders.v[i].v) :
                     i \in {j \in 1..Len(folders.v) :
                               verify_folders_entry_recurses(folders.v[j].k, folders.v[j].v)}}
    IN 1 + (IF below = {} THEN 0 ELSE CHOOSE n \in below : \A m \in below : m <= n)

RECURSIVE Entries(_, _)
\* the entries of a folder mapping from i on, and of the parent folders in them
Entries(folders, i) ==
    IF i > Len(folders.v) THEN 0
    ELSE 1 + (IF verify_folders_entry_recurses(folders.v[i].k, folders.v[i].v)
              THEN Entries(folders.v[i].v, 1) ELSE 0)
           + Entries(folders, i + 1)

RECURSIVE NonMappings(_, _)
\* the entries among those that are no mapping and are under no reserved key
NonMappings(folders, i) ==
    IF i > Len(folders.v) THEN 0
    ELSE (IF folders.v[i].k \notin adles_keywords /\ folders.v[i].v.t # "map" THEN 1 ELSE 0)
         + (IF verify_folders_entry_recurses(folders.v[i].k, folders.v[i].v)
            THEN NonMappings(folders.v[i].v, 1) ELSE 0)
         + NonMappings(folders, i + 1)

\* every call on the stack but the outermost was made by its caller's last
\* iteration, on the value of that entry, which is a mapping
C13_OneLevelBelow ==
    walk # NoWalk =>
    /\ \A k \in 1..Len(walk.stack) : walk.stack[k].folders.t = "map"
    /\ \A k \in 1..(Len(walk.stack) - 1) :
          LET caller == walk.stack[k]
          IN /\ caller.i - 1 \in 1..Len(caller.folders.v)
             /\ walk.stack[k + 1].folders = caller.folders.v[caller.i - 1].v
    /\ Len(walk.stack) <= Levels(WalkRoot)

\* the call that returned visited each entry once, reported each non-mapping
\* value, and returned the pair of counts of _verify_folders_syntax
C13_ReturnedPair ==
    walk # NoWalk =>
    /\ walk.visits <= Entries(WalkRoot, 1)
    /\ (walk.done /\ walk.exc = "") =>
          /\ walk.stack = <<>>
          /\ walk.visits = Entries(WalkRoot, 1)
          /\ Count(walk.log, LAMBDA d : d.lvl = "error" /\ d.msg = "Invalid configuration %s")
                = NonMappings(WalkRoot, 1)
          /\ <<walk.e, walk.w>> = <<adles_verify_folders_syntax(WalkRoot).e,
                                    adles_verify_folders_syntax(WalkRoot).w>>
          /\ walk.log = adles_verify_folders_syntax(WalkRoot).log

\* what is left of the run: two for each entry not yet visited (its iteration
\* and the return of the call it may make) and one for each call to return from
Remaining == 2 * (Entries(WalkRoot, 1) - walk.visits) + Len(walk.stack)

\* a call that has not returned can take a step (an iteration when the loop
\* of the innermost call has an entry left, its return when it has none), and
\* what is left of the run is never negative
C13_Progress ==
    walk # NoWalk =>
        /\ Remaining >= 0
        /\ ~walk.done => /\ walk.stack # <<>>
                         /\ Top.i \in 1..(Len(Top.folders.v) + 1)
        /\ (walk.done /\ walk.exc = "") => Remaining = 0

\* every step of the run leaves less of it
C13_Decreases == (walk # NoWalk) => (Remaining' < Remaining)

\* C13: adles' _verify_folders_syntax terminates on every finite folder tree:
\* each recursive call is on a value one nesting level below its caller, a
\* value that is no mapping is reported as an error and not recursed into, and
\* the call returns its pair of counts after visiting each entry once; every
\* step leaves strictly less of the tree to visit and the run is never stuck
\* before it returns
C13_FoldersWalkTerminates ==
    /\ [](C13_OneLevelBelow /\ C13_ReturnedPair /\ C13_Progress)
    /\ [][C13_Decreases]_vars

\* C13 witness: the call returned from a tree three levels deep that holds a
\* value that is no mapping, after one visit of each entry
C13_Witness ==
    /\ walk.done /\ walk.exc = ""
    /\ Levels(WalkRoot) = 3
    /\ NonMappings(WalkRoot, 1) >= 1
    /\ walk.visits = Entries(WalkRoot, 1) /\ walk.e >= 1

\* ---- top-level keys that name no section
RecognizedSections == {"metadata", "groups", "services", "resources", "networks", "folders"}
UnknownKeys == {k \in Keys(spec) : k \notin RecognizedSections}
UnknownKeyWarnings(k) ==
    Count(ret.log, LAMBDA d : /\ d.lvl = "warning"
                              /\ d.msg = "Unknown definition found: %s"
                              /\ d.args = <<k>>)

\* the count of warnings is that of the section checkers plus one for each
\* top-level key that names no section, each reported by one warning
C14_Counted(parser, verifier) ==
    (called = <<parser, verifier>> /\ ret.exc = "") =>
        /\ \A k \in UnknownKeys : UnknownKeyWarnings(k) = 1
        /\ ret.w >= Cardinality(UnknownKeys)
        /\ NumLogged(ret.log, "warning") >= Cardinality(UnknownKeys)

C14_Adles == C14_Counted("adles", "verify_exercise_syntax")
C14_Automation == C14_Counted("automation", "verify_syntax")

\* C14: verify_exercise_syntax (and verify_syntax) adds one warning for every
\* top-level key of the document that is none of metadata, groups, services,
\* resources, networks, folders
C14_UnknownKeyWarned == C14_Adles /\ C14_Automation

\* what the verifiers do with such keys: nothing at all is logged about them
C14_UnknownKeysIgnored ==
    (VerifierCalled /\ ret.exc = "") =>
        \A k \in UnknownKeys : \A i \in 1..Len(ret.log) :
            \A j \in 1..Len(ret.log[i].args) : ret.log[i].args[j] # k

(***************************************************************************)
(* The vSphere inventory.  `vs.inv` is the sequence of the managed         *)
(* entities; the handle of an entity is its index, 0 stands for None.      *)
(* `vs.calls` lists the calls made, `vs.log` what was logged.              *)
(***************************************************************************)
MaxCalls == 3

None == 0
Entity(kind, name, parent) ==
    [kind |-> kind, name |-> name, parent |-> parent, alive |-> TRUE,
     template |-> FALSE, power |-> "off", nics |-> 1, note |-> "", snaps |-> <<>>]

\* vsphere_utils: is_folder(obj), is_vm(obj)
is_folder(inv, h) == h # None /\ inv[h].kind = "folder"
is_vm(inv, h) == h # None /\ inv[h].kind = "vm"

\* folder.childEntity: the handles of the entities in the folder, in order
childEntity(inv, folder) ==
    SelectSeq([h \in 1..Len(inv) |-> h],
              LAMBDA h : inv[h].alive /\ inv[h].parent = folder)

\* str.lower() on the names of the model
lower(name) ==
    CASE name \in {"MASTERS", "Masters"} -> "masters"
      [] name = "MASTER_FOLDERS" -> "master_folders"
      [] OTHER -> name

\* folder_utils.find_in_folder: the first child of that name (and of that type
\* when one is given); the result of the recursive call at line 70 is dropped,
\* so a search recursing into sub-folders returns what a flat one returns
find_in_folder(inv, folder, name, recursive, vimtype) ==
    LET found == SelectSeq(childEntity(inv, folder),
                           LAMBDA h : /\ lower(inv[h].name) = lower(name)
                                      /\ (vimtype # "" => inv[h].kind = vimtype))
    IN IF found = <<>> THEN None ELSE found[1]

\* vim.Folder.CreateFolder(name): a new folder in the folder, or the fault
\* DuplicateName when a child has the name already
CreateFolder(inv, folder, name) ==
    IF \E i \in 1..Len(childEntity(inv, folder)) :
          inv[childEntity(inv, folder)[i]].name = name
    THEN [inv |-> inv, ret |-> None, fault |-> "DuplicateName"]
    ELSE [inv |-> Append(inv, Entity("folder", name, folder)),
          ret |-> Len(inv) + 1, fault |-> ""]

\* folder_utils.create_folder(folder, folder_name) on the server `s`: the
\* server after the call, with the call and what it returned as last of calls
create_folder(s, folder, folder_name) ==
    LET existing == find_in_folder(s.inv, folder, folder_name, FALSE, "")
        made == CreateFolder(s.inv, folder, folder_name)
        at == <<folder_name, s.inv[folder].name>>
    IN IF existing # None
       THEN [s EXCEPT !.log = Append(@, Diag("warning",
                                  "Folder '%s' already exists in folder '%s'", at)),
                      !.calls = Append(@, <<"create_folder", folder, folder_name, existing>>)]
       ELSE IF made.fault = ""
       THEN [s EXCEPT !.inv = made.inv,
                      !.log = Append(@, Diag("debug", "Creating folder '%s' in folder '%s'", at)),
                      !.calls = @ \o <<<<"CreateFolder", folder, folder_name, made.ret>>,
                                       <<"create_folder", folder, folder_name, made.ret>>>>]
       ELSE [s EXCEPT !.log = @ \o <<Diag("debug", "Creating folder '%s' in folder '%s'", at),
                                     Diag("error",
                                          "Could not create folder '%s' in '%s': folder already exists as '%s'",
                                          at \o <<folder_name>>)>>,
                      !.calls = @ \o <<<<"CreateFolder", folder, folder_name, None>>,
                                       <<"create_folder", folder, folder_name, None>>>>]

\* the entities a folder can hold before the calls: at most two, of names
\* that differ
InitialChildren ==
    LET one == {<<k, n>> : k \in {"folder", "vm"}, n \in {"masters", "other", "web"}}
    IN {<<>>} \cup {<<c>> : c \in one}
       \cup {cd \in one \X one : cd[1][2] # cd[2][2]}

FolderNames == {"masters", "MASTERS", "other"}

\* the calls of create_folder among the calls made
CreateFolderCalls == {k \in 1..Len(vs.calls) : vs.calls[k][1] = "create_folder"}

\* a server whose folder "lab" (handle 1) holds some entities
InitFolders ==
    /\ script = NoScript
    /\ spec = YMap(<<>>) /\ infra = CleanInfra
    /\ called = NoCall /\ ret = Returned(Ok0, YNone)
    /\ walk = NoWalk
    /\ \E children \in InitialChildren :
          vs = [NoServer EXCEPT !.inv =
                   <<Entity("folder", "lab", None)>>
                   \o [i \in 1..Len(children) |-> Entity(children[i][1], children[i][2], 1)]]

\* folder_utils.create_folder(folder, folder_name) on the folder "lab"
Call_create_folder(folder_name) ==
    /\ vs # NoServer
    /\ Cardinality(CreateFolderCalls) < MaxCalls
    /\ vs' = create_folder(vs, 1, folder_name)
    /\ UNCHANGED <<spec, infra, called, ret, walk, script>>

NextFolders == \E folder_name \in FolderNames : Call_create_folder(folder_name)

SpecFolders == InitFolders /\ [][NextFolders]_vars

\* ---- create_folder
\* the call made CreateFolder
Created(k) == k > 1 /\ vs.calls[k - 1][1] = "CreateFolder"
\* the folders of that name the folder "lab" holds
FoldersNamed(name) ==
    {h \in 1..Len(vs.inv) : /\ vs.inv[h].alive /\ vs.inv[h].parent = 1
                            /\ vs.inv[h].kind = "folder"
                            /\ lower(vs.inv[h].name) = lower(name)}
\* the children of that name, of any kind
ChildrenNamed(name) ==
    {h \in 1..Len(vs.inv) : /\ vs.inv[h].alive /\ vs.inv[h].parent = 1
                            /\ lower(vs.inv[h].name) = lower(name)}

\* what claim C15 says of the call at position k of the calls
C15_CallIdempotent(k) ==
    LET name == vs.calls[k][3]
        handle == vs.calls[k][4]
        before == FoldersNamed(name) \ (IF Created(k) THEN {handle} ELSE {})
    IN /\ before # {} => (handle \in before /\ ~Created(k))
       /\ is_folder(vs.inv, handle)
       /\ FoldersNamed(name) = {handle}
       /\ \A j \in CreateFolderCalls :
             lower(vs.calls[j][3]) = lower(name) => vs.calls[j][4] = handle

\* C15: create_folder is idempotent: when the folder holds a child folder of
\* that name the call returns it, logs a warning and no error and does not
\* call CreateFolder; after any number of calls with a name the folder holds
\* exactly one folder of that name, every call returned its handle, and the
\* handle is that of a folder, never of a VM that shares the name
C15_CreateFolderIdempotent ==
    vs # NoServer =>
        /\ \A k \in CreateFolderCalls : C15_CallIdempotent(k)
        /\ NumLogged(vs.log, "error") = 0
        /\ NumLogged(vs.log, "warning")
              = Cardinality({k \in CreateFolderCalls : ~Created(k)})

\* what holds: the claim, for the names that no child other than a folder has
C15_IdempotentAmongFolders ==
    vs # NoServer =>
        /\ \A k \in CreateFolderCalls :
              ChildrenNamed(vs.calls[k][3]) \subseteq FoldersNamed(vs.calls[k][3])
                 => C15_CallIdempotent(k)
        /\ NumLogged(vs.log, "error") = 0
        /\ NumLogged(vs.log, "warning")
              = Cardinality({k \in CreateFolderCalls : ~Created(k)})

(***************************************************************************)
(* automation/vsphere_interface.py: VsphereInterface on the server `s`.    *)
(* An operation returns the server after it; `s.exc` names the exception   *)
(* that ended it, if one did.                                              *)
(***************************************************************************)
master_folder_name == "MASTER_FOLDERS"
\* self.master_prefix + service_name
master_prefix_plus(service_name) ==
    CASE service_name = "a" -> "(MASTER) a"
      [] service_name = "b" -> "(MASTER) b"
      [] service_name = "c" -> "(MASTER) c"
      [] OTHER -> "(MASTER) d"

Did(s, call) == IF s.exc # "" THEN s ELSE [s EXCEPT !.calls = Append(@, call)]
Said(s, lvl, msg, args) ==
    IF s.exc # "" THEN s ELSE [s EXCEPT !.log = Append(@, Diag(lvl, msg, args))]
Raised(s, exception) == IF s.exc # "" THEN s ELSE [s EXCEPT !.exc = exception]

\* Vsphere.get_vm(vm_name): the virtual machine of that name, None without one
get_vm(inv, vm_name) ==
    LET found == SelectSeq([h \in 1..Len(inv) |-> h],
                           LAMBDA h : inv[h].alive /\ inv[h].kind = "vm"
                                      /\ inv[h].name = vm_name)
    IN IF found = <<>> THEN None ELSE found[1]

\* vm_utils.clone_vm(vm, folder, name, clone_spec): `pool` tells whether the
\* clone spec names a resource pool, `fails` whether the task CloneVM_Task
\* fails on the platform.  The task fails too when the folder is None or
\* holds an entity of that name.
clone_vm(s, vm, folder, name, pool, fails) ==
    IF s.exc # "" THEN s
    ELSE IF vm = None THEN Raised(s, "AttributeError")
    ELSE IF s.inv[vm].template /\ ~pool
    THEN Said(Did(s, <<"clone_vm", vm, folder, name>>), "error",
              "Cannot clone Template %s without specifying a resource pool", <<s.inv[vm].name>>)
    ELSE IF folder = None THEN Raised(s, "AttributeError")
    ELSE LET t == Said(Did(s, <<"clone_vm", vm, folder, name>>), "info",
                       "Cloning VM %s to folder %s with name %s",
                       <<s.inv[vm].name, s.inv[folder].name, name>>)
             taken == \E i \in 1..Len(childEntity(s.inv, folder)) :
                         s.inv[childEntity(s.inv, folder)[i]].name = name
         IN IF fails \/ taken THEN t
            ELSE [t EXCEPT !.inv = Append(@, [Entity("vm", name, folder)
                                                EXCEPT !.nics = s.inv[vm].nics])]


\* len(x) of a list or mapping
PyLen(x) == Len(x.v)

\* vm_utils.set_note(vm, note)
set_note(s, vm, note) ==
    IF s.exc # "" THEN s
    ELSE [Said(Did(s, <<"set_note", vm, note>>), "debug",
               "Setting note of VM %s to %s", <<s.inv[vm].name, note>>)
            EXCEPT !.inv[vm].note = note]

\* vm_utils.create_snapshot(vm, name, description)
create_snapshot(s, vm, name) ==
    IF s.exc # "" THEN s
    ELSE [Said(Did(s, <<"create_snapshot", vm, name>>), "info",
               "Creating snapshot %s of VM %s. Description: %s", <<name, s.inv[vm].name>>)
            EXCEPT !.inv[vm].snaps = Append(@, name)]

\* VsphereInterface._create_master_networks(net_type) for the networks of the
\* specification `doc`: one portgroup per network of the type
create_master_networks(s, doc, net_type) ==
    LET nets == Get(Get(doc, "networks"), net_type)
        one(t, name, config) ==
            IF t.exc # "" THEN t
            ELSE IF InRaises(config) THEN Raised(t, "TypeError")
            ELSE IF ~PyIn("vswitch", config) \/ config.t # "map" THEN Raised(t, "KeyError")
            ELSE Did(t, <<"create_portgroup", name, Get(config, "vswitch").v,
                          IF PyIn("vlan", config) THEN Get(config, "vlan").v ELSE 0>>)
        loop[i \in 0..PyLen(nets)] ==
            IF i = 0 THEN s ELSE one(loop[i - 1], nets.v[i].k, nets.v[i].v)
    IN loop[PyLen(nets)]

\* the body of the loop over the services in create_masters (lines 73-103)
create_master(s, master_folder, service_name, service_config, pool, fails) ==
    IF s.exc # "" \/ ~PyIn("template", service_config) THEN s
    ELSE LET vm_name == master_prefix_plus(service_name)
             s1 == Said(s, "info", "Creating master for service %s from template %s",
                        <<service_name, Get(service_config, "template").v>>)
             template == get_vm(s1.inv, Get(service_config, "template").v)
             s2 == clone_vm(s1, template, master_folder, vm_name, pool, fails)
             new_vm == get_vm(s2.inv, vm_name)
             noted == IF PyIn("note", service_config)
                      THEN set_note(s2, new_vm, Get(service_config, "note").v)
                      ELSE s2
         IN IF s2.exc # "" THEN s2
            ELSE IF new_vm = None
            THEN Said(s2, "error", "Did not successfully clone VM %s", <<vm_name>>)
            ELSE IF ~PyIn("networks", service_config) THEN Raised(s2, "KeyError")
            \* zip(list, int) at line 93 raises before any edit_nic
            ELSE IF PyLen(Get(service_config, "networks")) = s2.inv[new_vm].nics
            THEN Raised(s2, "TypeError")
            ELSE create_snapshot(noted, new_vm, "post-clone")

\* VsphereInterface.create_masters(): `pool` tells whether the clone spec the
\* server generates names a resource pool, `fails` names the services whose
\* clone task fails on the platform
create_masters(s, doc, pool, fails) ==
    LET s1 == create_folder(s, s.root_folder, master_folder_name)
        master_folder == s1.calls[Len(s1.calls)][4]
        s2 == Said(s1, "info", "Created master folder %s under folder %s",
                   <<master_folder_name, s.inv[s.root_folder].name>>)
        networks == Get(doc, "networks")
        nets[i \in 0..PyLen(networks)] ==
            IF i = 0 THEN s2
            ELSE IF nets[i - 1].exc # "" THEN nets[i - 1]
            ELSE create_master_networks(nets[i - 1], doc, networks.v[i].k)
        services == Get(doc, "services")
        masters[i \in 0..PyLen(services)] ==
            IF i = 0 THEN nets[PyLen(networks)]
            ELSE create_master(masters[i - 1], master_folder, services.v[i].k,
                               services.v[i].v, pool, services.v[i].k \in fails)
    IN masters[PyLen(services)]


\* vm_utils.is_template(vm)
is_template(inv, vm) == inv[vm].template

\* vm_utils.convert_to_template(vm): MarkAsTemplate raises InvalidPowerState
\* on a machine that is powered on, which is caught and logged; `fails` tells
\* whether the task fails on the platform, which leaves the machine as it was
convert_to_template(s, vm, fails) ==
    LET s1 == Said(Did(s, <<"convert_to_template", vm>>), "debug",
                   "Converting VM %s to Template", <<s.inv[vm].name>>)
    IN IF s.inv[vm].power = "on"
       THEN Said(s1, "error",
                 "VM %s must be powered off before being converted to a template!",
                 <<s.inv[vm].name>>)
       ELSE IF fails THEN s1
       ELSE [s1 EXCEPT !.inv[vm].template = TRUE]

\* deploy_environment without the test of line 126: convert_to_template gets
\* None for a missing master and raises on vm.name
deploy_master_unverified(s, service_name, service_config, fails) ==
    IF ~PyIn("template", service_config) \/ s.exc # "" THEN s
    ELSE LET vm == get_vm(s.inv, master_prefix_plus(service_name))
             s1 == Said(Did(s, <<"get_vm", master_prefix_plus(service_name), vm>>), "debug",
                        "Verified master %s exists. Converting to template...", <<service_name>>)
             s2 == Said(convert_to_template(s1, vm, fails), "debug",
                        "Converted master %s to template. Verifying...", <<service_name>>)
             s3 == Did(s2, <<"is_template", vm, is_template(s2.inv, vm)>>)
         IN IF vm = None
            THEN Raised(Did(s1, <<"convert_to_template", vm>>), "AttributeError")
            ELSE IF ~is_template(s3.inv, vm)
            THEN Said(s3, "error", "Master %s did not convert to template!", <<service_name>>)
            ELSE s3

\* the body of the loop over the services in deploy_environment (lines 124-133)
deploy_master(s, service_name, service_config, fails) ==
    IF ~PyIn("template", service_config) THEN s
    ELSE LET vm == get_vm(s.inv, master_prefix_plus(service_name))
             s1 == Said(Did(s, <<"get_vm", master_prefix_plus(service_name), vm>>), "debug",
                        "Verified master %s exists. Converting to template...", <<service_name>>)
             s2 == Said(convert_to_template(s1, vm, fails), "debug",
                        "Converted master %s to template. Verifying...", <<service_name>>)
             s3 == Did(s2, <<"is_template", vm, is_template(s2.inv, vm)>>)
         IN IF vm = None
            THEN Said(Did(s, <<"get_vm", master_prefix_plus(service_name), vm>>), "error",
                      "Could not find master %s", <<service_name>>)
            ELSE IF ~is_template(s3.inv, vm)
            THEN Said(s3, "error", "Master %s did not convert to template!", <<service_name>>)
            ELSE s3

\* VsphereInterface.deploy_environment(): `fails` names the services whose
\* MarkAsTemplate task fails on the platform
deploy_environment(s, doc, fails) ==
    LET services == Get(doc, "services")
        s1 == Said(s, "info", "Verifying masters and converting to templates...", <<>>)
        masters[i \in 0..PyLen(services)] ==
            IF i = 0 THEN s1
            ELSE deploy_master(masters[i - 1], services.v[i].k, services.v[i].v,
                               services.v[i].k \in fails)
    IN masters[PyLen(services)]

\* VsphereInterface.cleanup_masters(network_cleanup): finds the master folder
\* and logs its name; nothing is destroyed
cleanup_masters(s, network_cleanup) ==
    LET master_folder == find_in_folder(s.inv, s.root_folder, master_folder_name, FALSE, "")
    IN IF master_folder = None THEN Raised(s, "AttributeError")
       ELSE Said(s, "info",
                 "Found master folder %s under folder %s, proceeding with cleanup...",
                 <<s.inv[master_folder].name, s.inv[s.root_folder].name>>)

\* VsphereInterface.cleanup_environment(network_cleanup)
cleanup_environment(s, network_cleanup) == s


(***************************************************************************)
(* automation/interface.py: Interface.  `s.interface` tells what became of *)
(* the construction: "none" before it, "ready" with a VsphereInterface as  *)
(* self.interface, "exited" after exit(), "raised" after an exception.     *)
(***************************************************************************)
\* os.path.split(path.lower()) of the paths of the model, the folder part
\* split at '/'
split(path) ==
    CASE path = "" -> [folder_path |-> <<"">>, name |-> ""]
      [] path = "labs/" -> [folder_path |-> <<"labs">>, name |-> ""]
      [] path = "gone/" -> [folder_path |-> <<"gone">>, name |-> ""]
      [] path = "LABS/db" -> [folder_path |-> <<"labs">>, name |-> "db"]
      [] path = "gone/web-1" -> [folder_path |-> <<"gone">>, name |-> "web-1"]
      [] path = "labs/deep/web" -> [folder_path |-> <<"labs", "deep">>, name |-> "web"]
      [] path = "labs/gone/db" -> [folder_path |-> <<"labs", "gone">>, name |-> "db"]
      [] path = "/labs/web-2" -> [folder_path |-> <<"", "labs">>, name |-> "web-2"]
      [] OTHER -> [folder_path |-> <<"">>, name |-> lower(path)]

\* folder_utils.traverse_path(root, path)
traverse_path(inv, root, path) ==
    LET into(current, folder) ==
            LET next == SelectSeq(childEntity(inv, current),
                                  LAMBDA h : is_folder(inv, h) /\ lower(inv[h].name) = folder)
            IN IF next = <<>> THEN current ELSE next[1]
        walked[i \in 0..Len(split(path).folder_path)] ==
            IF i = 0 THEN root ELSE into(walked[i - 1], split(path).folder_path[i])
        current == walked[Len(split(path).folder_path)]
        named == SelectSeq(childEntity(inv, current),
                           LAMBDA h : lower(inv[h].name) = split(path).name)
    IN IF split(path).name = "" THEN current
       ELSE IF named = <<>> THEN None ELSE named[1]

\* json.load of the login file gives a mapping with user, pass, host and port
logins_complete(path) == path = "login.json"

\* VsphereInterface.__init__(infrastructure, logins, spec): reads the sections
\* of the specification, connects to the server, and creates the root folder
\* of the exercise under the folder "script_testing" (handle 1)
VsphereInterface_init(s, infrastructure, doc) ==
    LET metadata == Get(doc, "metadata")
        parent == traverse_path(s.inv, 1, Get(metadata, "root-path").v)
        s1 == create_folder(Did(s, <<"VsphereInterface">>), parent, Get(metadata, "name").v)
    IN IF \E k \in {"metadata", "groups", "services", "networks", "folders"} : ~PyIn(k, doc)
       THEN [Raised(s, "KeyError") EXCEPT !.interface = "raised"]
       ELSE IF ~PyIn("datacenter", infrastructure)
               \/ ~logins_complete(Get(infrastructure, "login-file").v)
               \/ ~PyIn("datastore", infrastructure)
               \/ ~PyIn("root-path", metadata) \/ ~PyIn("name", metadata)
       THEN [Raised(s, "KeyError") EXCEPT !.interface = "raised"]
       ELSE [s1 EXCEPT !.interface = "ready",
                       !.root_folder = s1.calls[Len(s1.calls)][4]]

\* open() and json.load succeed on the login file
login_file_loads(path) == exists(path) /\ ~read_json_is_None(path)

\* Interface.__init__ without the exit() calls of lines 44 and 52: after the
\* error of the login file it goes on to select the platform, and after the
\* error of the platform it returns an object without self.interface
Interface_init_without_exit(s, doc, infrastructure) ==
    LET metadata == Get(doc, "metadata")
        exited(t) == [t EXCEPT !.interface = "exited", !.exc = "SystemExit"]
        loaded == IF login_file_loads(Get(infrastructure, "login-file").v)
                  THEN Said(s, "debug", "Loading login information...", <<>>)
                  ELSE Said(Said(s, "debug", "Loading login information...", <<>>), "error",
                            "Could not open login file %s. Error: %s",
                            <<Get(infrastructure, "login-file").v>>)
    IN IF ~PyIn("infrastructure-config-file", metadata)
       THEN [Raised(s, "KeyError") EXCEPT !.interface = "raised"]
       ELSE IF Get(metadata, "infrastructure-config-file").v = ""
       THEN exited(Said(s, "error", "No infrastructure configuration file specified!", <<>>))
       ELSE IF infrastructure.t # "map"
       THEN [Raised(s, "TypeError") EXCEPT !.interface = "raised"]
       ELSE IF ~PyIn("login-file", infrastructure) \/ ~PyIn("platform", infrastructure)
       THEN [Raised(s, "KeyError") EXCEPT !.interface = "raised"]
       ELSE IF Get(infrastructure, "platform").v = "vmware vsphere"
       THEN VsphereInterface_init(loaded, infrastructure, doc)
       ELSE [Said(loaded, "error", "Invalid platform {}", <<Get(infrastructure, "platform").v>>)
               EXCEPT !.interface = "raised"]

\* Interface.__init__(spec), with `infrastructure` what parse_file gives for
\* "vsphere.yaml"
Interface_init(s, doc, infrastructure) ==
    LET metadata == Get(doc, "metadata")
        exited(t) == [t EXCEPT !.interface = "exited", !.exc = "SystemExit"]
    IN IF ~PyIn("infrastructure-config-file", metadata)
       THEN [Raised(s, "KeyError") EXCEPT !.interface = "raised"]
       ELSE IF Get(metadata, "infrastructure-config-file").v = ""
       THEN exited(Said(s, "error", "No infrastructure configuration file specified!", <<>>))
       \* infrastructure["login-file"] raises inside the try and again inside
       \* the handler that formats the message
       ELSE IF infrastructure.t # "map"
       THEN [Raised(s, "TypeError") EXCEPT !.interface = "raised"]
       ELSE IF ~PyIn("login-file", infrastructure)
       THEN [Raised(s, "KeyError") EXCEPT !.interface = "raised"]
       ELSE IF ~login_file_loads(Get(infrastructure, "login-file").v)
       THEN exited(Said(Said(s, "debug", "Loading login information...", <<>>), "error",
                        "Could not open login file %s. Error: %s",
                        <<Get(infrastructure, "login-file").v>>))
       ELSE IF ~PyIn("platform", infrastructure)
       THEN [Raised(s, "KeyError") EXCEPT !.interface = "raised"]
       ELSE IF Get(infrastructure, "platform").v = "vmware vsphere"
       THEN VsphereInterface_init(Said(s, "debug", "Loading login information...", <<>>),
                                  infrastructure, doc)
       ELSE exited(Said(Said(s, "debug", "Loading login information...", <<>>), "error",
                        "Invalid platform {}", <<Get(infrastructure, "platform").v>>))


\* Interface.create_masters()
Interface_create_masters(s, doc, pool, fails) ==
    create_masters(Did(Said(Did(s, <<"Interface.create_masters">>), "info",
                            "Creating Master instances for %s",
                            <<Get(Get(doc, "metadata"), "name").v>>),
                       <<"VsphereInterface.create_masters">>),
                   doc, pool, fails)

\* Interface.deploy_environment()
Interface_deploy_environment(s, doc, fails) ==
    deploy_environment(Did(Said(Did(s, <<"Interface.deploy_environment">>), "info",
                                "Deploying environment for %s",
                                <<Get(Get(doc, "metadata"), "name").v>>),
                           <<"VsphereInterface.deploy_environment">>),
                       doc, fails)

\* Interface.cleanup_masters(network_cleanup)
Interface_cleanup_masters(s, doc, network_cleanup) ==
    cleanup_masters(Did(Said(Did(s, <<"Interface.cleanup_masters", network_cleanup>>), "info",
                             "Cleaning up Master instances for %s",
                             <<Get(Get(doc, "metadata"), "name").v>>),
                        <<"VsphereInterface.cleanup_masters", network_cleanup>>),
                    network_cleanup)

\* Interface.cleanup_environment(network_cleanup): line 78 calls the platform's
\* cleanup_masters
Interface_cleanup_environment(s, doc, network_cleanup) ==
    cleanup_masters(Did(Said(Did(s, <<"Interface.cleanup_environment", network_cleanup>>), "info",
                             "Cleaning up environment for %s",
                             <<Get(Get(doc, "metadata"), "name").v>>),
                        <<"VsphereInterface.cleanup_masters", network_cleanup>>),
                    network_cleanup)

(***************************************************************************)
(* The specifications, infrastructure files and servers the interface is   *)
(* run on.                                                                 *)
(***************************************************************************)
\* phase methods and power operations in one run
MaxPhases == 3

ServiceNames == <<"a", "b">>

\* what a service can be: templates whose networks are as many as the NICs of
\* the clone (one), more than them, or not given; a template the server does
\* not have; a container image
InterfaceServices ==
    {YMap(<<KV("template", YStr("tmpl")), KV("networks", YList(<<"n1">>))>>),
     YMap(<<KV("template", YStr("tmpl")), KV("networks", YList(<<"n1", "n2">>)),
            KV("note", YStr("web server"))>>),
     YMap(<<KV("template", YStr("tmpl"))>>),
     YMap(<<KV("template", YStr("gone")), KV("networks", YList(<<"n1", "n2">>))>>),
     YMap(<<KV("image", YStr("nginx"))>>)}

InterfaceNetworks ==
    {YMap(<<KV("unique-networks",
               YMap(<<KV("n1", YMap(<<KV("subnet", YStr("10.0.0.0/24")),
                                      KV("vswitch", YStr("vs0"))>>)),
                      KV("n2", YMap(<<KV("subnet", YStr("10.0.1.0/24")),
                                      KV("vswitch", YStr("vs0")),
                                      KV("vlan", YInt(7))>>))>>))>>),
     YMap(<<KV("unique-networks",
               YMap(<<KV("n1", YMap(<<KV("subnet", YStr("10.0.0.0/24"))>>))>>))>>)}

InterfaceMetadata ==
    {YMap(<<KV("name", YStr("lab")), KV("root-path", YStr(p)),
            KV("infrastructure-config-file", YStr(c))>>) :
        p \in {"", "labs/"}, c \in {"infra.yaml", ""}}

InterfaceDocuments ==
    {YMap(<<KV("metadata", m), KV("groups", YMap(<<>>)),
            KV("services", YMap([i \in 1..Len(cs) |-> KV(ServiceNames[i], cs[i])])),
            KV("networks", n), KV("folders", YMap(<<>>))>>) :
        m \in InterfaceMetadata, n \in InterfaceNetworks,
        cs \in {<<c>> : c \in InterfaceServices} \cup (InterfaceServices \X InterfaceServices)}

\* what parse_file gives for "vsphere.yaml"
VsphereYamls ==
    {YMap(<<KV("platform", YStr(pf)), KV("login-file", YStr(lf)),
            KV("datacenter", YStr("dc")), KV("datastore", YStr("ds"))>>) :
        pf \in {"vmware vsphere", "openstack"},
        lf \in {"login.json", "missing.json", "bad.json"}}
    \cup {YNone}

\* the server before the run: the folder "script_testing" (handle 1) with the
\* template "tmpl" and the folder "labs"
InitialInventory ==
    <<Entity("folder", "script_testing", None),
      [Entity("vm", "tmpl", 1) EXCEPT !.template = TRUE],
      Entity("folder", "labs", 1)>>

InitInterface ==
    /\ spec \in InterfaceDocuments
    /\ infra \in VsphereYamls
    /\ called = NoCall /\ ret = Returned(Ok0, YNone)
    /\ walk = NoWalk
    /\ vs = [NoServer EXCEPT !.inv = InitialInventory]
    /\ script = NoScript

Running == vs.interface = "ready" /\ vs.exc = "" /\ vs.steps < MaxPhases
Stepped(s) == [s EXCEPT !.steps = @ + 1]
TemplateServices ==
    {Get(spec, "services").v[i].k : i \in
        {j \in 1..PyLen(Get(spec, "services")) : PyIn("template", Get(spec, "services").v[j].v)}}

Call_Interface ==
    /\ vs.interface = "none" /\ vs.inv # <<>>
    /\ vs' = Interface_init(vs, spec, infra)
    /\ UNCHANGED <<spec, infra, called, ret, walk, script>>

Call_create_masters(pool, fails) ==
    /\ Running
    /\ vs' = Interface_create_masters(Stepped(vs), spec, pool, fails)
    /\ UNCHANGED <<spec, infra, called, ret, walk, script>>

Call_deploy_environment(fails) ==
    /\ Running
    /\ vs' = Interface_deploy_environment(Stepped(vs), spec, fails)
    /\ UNCHANGED <<spec, infra, called, ret, walk, script>>

Call_cleanup_masters(network_cleanup) ==
    /\ Running
    /\ vs' = Interface_cleanup_masters(Stepped(vs), spec, network_cleanup)
    /\ UNCHANGED <<spec, infra, called, ret, walk, script>>

Call_cleanup_environment(network_cleanup) ==
    /\ Running
    /\ vs' = Interface_cleanup_environment(Stepped(vs), spec, network_cleanup)
    /\ UNCHANGED <<spec, infra, called, ret, walk, script>>

\* a user of the server powers a master on between two phases
PowerOn(vm) ==
    /\ Running
    /\ vs.inv[vm].kind = "vm" /\ ~vs.inv[vm].template /\ vs.inv[vm].power = "off"
    /\ vs' = [Stepped(vs) EXCEPT !.inv[vm].power = "on"]
    /\ UNCHANGED <<spec, infra, called, ret, walk, script>>

NextInterface ==
    \/ Call_Interface
    \/ \E pool \in BOOLEAN, fails \in SUBSET TemplateServices : Call_create_masters(pool, fails)
    \/ \E fails \in SUBSET TemplateServices : Call_deploy_environment(fails)
    \/ \E network_cleanup \in BOOLEAN : Call_cleanup_masters(network_cleanup)
    \/ \E network_cleanup \in BOOLEAN : Call_cleanup_environment(network_cleanup)
    \/ \E vm \in 1..Len(vs.inv) : PowerOn(vm)

SpecInterface == InitInterface /\ [][NextInterface]_vars


(***************************************************************************)
(* What one step of the interface added to the calls and to the log.       *)
(***************************************************************************)
NewCalls == SubSeq(vs'.calls, Len(vs.calls) + 1, Len(vs'.calls))
NewLog == SubSeq(vs'.log, Len(vs.log) + 1, Len(vs'.log))
StepOf(method) == vs.interface = "ready" /\ NewCalls # <<>> /\ NewCalls[1][1] = method
ServiceAt(i) == Get(spec, "services").v[i]
TemplateOrigin == {i \in 1..PyLen(Get(spec, "services")) : PyIn("template", ServiceAt(i).v)}
LoggedNow(lvl, msg, arg) ==
    \E n \in 1..Len(NewLog) :
        NewLog[n].lvl = lvl /\ NewLog[n].msg = msg /\ NewLog[n].args[1] = arg
DoneNow(operation, vm) ==
    \E n \in 1..Len(NewCalls) : NewCalls[n][1] = operation /\ NewCalls[n][2] = vm

\* create_masters started on the service: line 74 logged it
Attempted(i) ==
    LoggedNow("info", "Creating master for service %s from template %s", ServiceAt(i).k)
\* the master of the service after the step, None without one
MasterAfter(i) == get_vm(vs'.inv, master_prefix_plus(ServiceAt(i).k))
\* the service was attempted, and its master, when there is one, has its
\* note and its snapshot from this step
Processed(i) ==
    /\ Attempted(i)
    /\ MasterAfter(i) # None =>
          /\ DoneNow("create_snapshot", MasterAfter(i))
          /\ PyIn("note", ServiceAt(i).v) => DoneNow("set_note", MasterAfter(i))

\* C16: in every call of create_masters, a template-origin service whose
\* clone is not there after cloning has an error logged and gets no NIC edit,
\* note or snapshot, and every later template-origin service is still
\* processed.
C16_Isolated ==
    StepOf("Interface.create_masters") =>
        \A i \in TemplateOrigin :
            (Attempted(i) /\ MasterAfter(i) = None) =>
                /\ LoggedNow("error", "Did not successfully clone VM %s",
                             master_prefix_plus(ServiceAt(i).k))
                /\ \A j \in TemplateOrigin : j > i => Processed(j)
C16_FailedCloneIsolated == [][C16_Isolated]_vars

\* C16, the part the loop keeps: after the error of a clone that is not
\* there, the loop goes on to the next template-origin service.
C16_Skipped ==
    StepOf("Interface.create_masters") =>
        \A i \in TemplateOrigin :
            LoggedNow("error", "Did not successfully clone VM %s",
                      master_prefix_plus(ServiceAt(i).k)) =>
                /\ MasterAfter(i) = None
                /\ \A j \in TemplateOrigin : j > i => Attempted(j)
C16_FailedCloneSkipped == [][C16_Skipped]_vars


\* the calls of one step that are about the master of a service, in order
MasterCalls(i) ==
    SelectSeq(NewCalls,
              LAMBDA c : \/ c[1] = "get_vm" /\ c[2] = master_prefix_plus(ServiceAt(i).k)
                         \/ /\ c[1] \in {"convert_to_template", "is_template"}
                            /\ c[2] = get_vm(vs.inv, master_prefix_plus(ServiceAt(i).k)))
\* the services of the lookups of one step, in order
Lookups == SelectSeq(NewCalls, LAMBDA c : c[1] = "get_vm")
TemplateOriginNames ==
    LET services == Get(spec, "services").v
        origin == SelectSeq(services, LAMBDA entry : PyIn("template", entry.v))
    IN [i \in 1..Len(origin) |-> master_prefix_plus(origin[i].k)]

\* C17: deploy_environment looks every template-origin service up once, in
\* order, by master_prefix + service name; converts only a master it found
\* and checks is_template after the conversion; logs an error for a missing
\* master and for a master that is no template afterwards; and never raises.
C17_Visited ==
    StepOf("Interface.deploy_environment") =>
        /\ vs'.exc = ""
        /\ [n \in 1..Len(Lookups) |-> Lookups[n][2]] = TemplateOriginNames
        /\ \A i \in TemplateOrigin :
              LET vm == get_vm(vs.inv, master_prefix_plus(ServiceAt(i).k))
              IN IF vm = None
                 THEN /\ MasterCalls(i) = <<<<"get_vm", master_prefix_plus(ServiceAt(i).k), None>>>>
                      /\ LoggedNow("error", "Could not find master %s", ServiceAt(i).k)
                 ELSE /\ MasterCalls(i) =
                            <<<<"get_vm", master_prefix_plus(ServiceAt(i).k), vm>>,
                              <<"convert_to_template", vm>>,
                              <<"is_template", vm, vs'.inv[vm].template>>>>
                      /\ ~vs'.inv[vm].template <=>
                            LoggedNow("error", "Master %s did not convert to template!",
                                      ServiceAt(i).k)
                      /\ ~LoggedNow("error", "Could not find master %s", ServiceAt(i).k)
        /\ \A n \in 1..Len(NewCalls) :
              NewCalls[n][1] = "convert_to_template" => NewCalls[n][2] # None
C17_DeployBestEffort == [][C17_Visited]_vars

\* deploy_environment has run on two template-origin services: the master of
\* the first was missing, the master of the second was powered on and did not
\* convert, and both errors are in the log
C17_Witness ==
    /\ \E n \in 1..Len(vs.calls) : vs.calls[n][1] = "VsphereInterface.deploy_environment"
    /\ vs.exc = ""
    /\ \E n, m \in 1..Len(vs.log) :
          /\ n < m
          /\ vs.log[n].msg = "Could not find master %s" /\ vs.log[n].args = <<"a">>
          /\ vs.log[m].msg = "Master %s did not convert to template!"
          /\ vs.log[m].args = <<"b">>
    /\ \E n \in 1..Len(vs.log) :
          vs.log[n].msg = "VM %s must be powered off before being converted to a template!"


\* the master folder under the root folder after the step, None without one
MasterFolderAfter == find_in_folder(vs'.inv, vs'.root_folder, master_folder_name, FALSE, "")
\* the masters in the master folder after the step
MastersAfter ==
    {h \in 1..Len(vs'.inv) :
        /\ vs'.inv[h].alive /\ vs'.inv[h].kind = "vm"
        /\ vs'.inv[h].parent = MasterFolderAfter
        /\ \E i \in TemplateOrigin : vs'.inv[h].name = master_prefix_plus(ServiceAt(i).k)}

\* C18: cleanup_masters, called in any state, returns without raising, also
\* when there is no master folder, and leaves no master in the master folder.
C18_Cleaned ==
    StepOf("Interface.cleanup_masters") =>
        /\ vs'.exc = ""
        /\ MasterFolderAfter # None => MastersAfter = {}
C18_MastersDestroyed == [][C18_Cleaned]_vars

\* C18, what cleanup_masters does: it changes nothing on the server, and it
\* returns exactly when it found the master folder.
C18_Unchanged ==
    StepOf("Interface.cleanup_masters") =>
        /\ vs'.inv = vs.inv
        /\ vs'.exc = "" <=> MasterFolderAfter # None
C18_CleanupChangesNothing == [][C18_Unchanged]_vars


\* the calls of one step on the platform interface
PlatformCalls ==
    SelectSeq(NewCalls,
              LAMBDA c : c[1] \in {"VsphereInterface.create_masters",
                                   "VsphereInterface.deploy_environment",
                                   "VsphereInterface.cleanup_masters",
                                   "VsphereInterface.cleanup_environment"})

\* C19: Interface.cleanup_environment calls the platform's cleanup_environment
\* once, with the caller's network_cleanup, and nothing else of the platform;
\* Interface.cleanup_masters calls only the platform's cleanup_masters.
C19_Delegated ==
    /\ StepOf("Interface.cleanup_environment") =>
          PlatformCalls = <<<<"VsphereInterface.cleanup_environment", NewCalls[1][2]>>>>
    /\ StepOf("Interface.cleanup_masters") =>
          PlatformCalls = <<<<"VsphereInterface.cleanup_masters", NewCalls[1][2]>>>>
C19_CleanupDelegation == [][C19_Delegated]_vars

\* C19, what the two methods do: both call the platform's cleanup_masters
\* once, with the caller's network_cleanup.
C19_Masters ==
    (StepOf("Interface.cleanup_environment") \/ StepOf("Interface.cleanup_masters")) =>
        PlatformCalls = <<<<"VsphereInterface.cleanup_masters", NewCalls[1][2]>>>>
C19_BothCleanMasters == [][C19_Masters]_vars

\* the login file cannot be read, or the platform is not the supported one
ConfigurationFatal ==
    /\ infra.t = "map"
    /\ \/ ~login_file_loads(Get(infra, "login-file").v)
       \/ Get(infra, "platform").v # "vmware vsphere"
PhaseCalls ==
    {n \in 1..Len(vs.calls) :
        vs.calls[n][1] \in {"Interface.create_masters", "Interface.deploy_environment",
                            "Interface.cleanup_masters", "Interface.cleanup_environment"}}

\* C20: with a login file that cannot be read or a platform that is not the
\* supported one, the construction of Interface exits: no VsphereInterface is
\* made, the server is as before, no call is made on it, and no phase method
\* runs afterwards.  A phase method runs only on a constructed interface.
C20_Stopped ==
    /\ ConfigurationFatal =>
          /\ vs.interface \in {"none", "exited"}
          /\ vs.inv = InitialInventory /\ vs.calls = <<>> /\ vs.root_folder = None
          /\ vs.interface = "exited" =>
                /\ vs.exc = "SystemExit"
                /\ vs.log[Len(vs.log)].lvl = "error"
    /\ PhaseCalls # {} =>
          \E n \in 1..Len(vs.calls) :
              vs.calls[n][1] = "VsphereInterface" /\ n < CHOOSE m \in PhaseCalls : TRUE
C20_Exits ==
    (ConfigurationFatal /\ vs.interface = "none") => vs'.interface = "exited"
C20_FatalStopsRun == []C20_Stopped /\ [][C20_Exits /\ (vs.interface = "exited" => vs' = vs)]_vars

\* the construction has exited on a platform that is not the supported one,
\* with a login file that loads
C20_Witness ==
    /\ vs.interface = "exited"
    /\ infra.t = "map" /\ Get(infra, "platform").v = "openstack"
    /\ login_file_loads(Get(infra, "login-file").v)
    /\ Get(Get(spec, "metadata"), "infrastructure-config-file").v # ""


(***************************************************************************)
(* adles/vsphere/vm_utils.py and folder_utils.py: destruction.  `platform` *)
(* tells what the server does with the tasks of one call: whether          *)
(* PowerOffVM_Task fails (logged by wait_for_task, the machine stays on),  *)
(* and whether wait_for_task raises when it is given None, which is what   *)
(* change_power_state returns.                                             *)
(***************************************************************************)
Platforms == [off_fails : BOOLEAN, none_raises : BOOLEAN]

\* str(item.name).startswith(prefix) on the names of the model
startswith(name, prefix) ==
    CASE prefix = "web" -> name \in {"web", "web-1", "web-2"}
      [] prefix = "(MASTER) " -> name \in {"(MASTER) a", "(MASTER) b", "(MASTER) c", "(MASTER) d"}
      [] OTHER -> name = prefix

\* vm_utils.powered_on(vm)
powered_on(inv, vm) == inv[vm].power = "on"

\* vm_utils.change_power_state(vm, "off"): PowerOffVM_Task, and the wait for it
change_power_state_off(s, vm, platform) ==
    LET s1 == Said(Did(s, <<"PowerOffVM_Task", vm>>), "debug",
                   "Changing power state of VM %s to: '%s'", <<s.inv[vm].name, "off">>)
    IN IF s.exc # "" \/ platform.off_fails THEN s1
       ELSE [s1 EXCEPT !.inv[vm].power = "off"]

\* vm_utils.destroy_vm(vm): the call of Destroy_Task is recorded with the
\* power state of the machine at that moment
destroy_vm(s, vm, platform) ==
    LET s1 == Said(Did(s, <<"destroy_vm", vm>>), "info", "Destroying VM %s", <<s.inv[vm].name>>)
        s2 == change_power_state_off(
                  Said(s1, "info", "VM %s is still on, powering off before destroying...",
                       <<s.inv[vm].name>>), vm, platform)
        \* wait_for_task(change_power_state(vm, "off")) waits for None
        s3 == IF ~powered_on(s.inv, vm) THEN s1
              ELSE IF platform.none_raises THEN Raised(s2, "AttributeError")
              ELSE s2
    IN IF s.exc # "" THEN s
       ELSE IF s3.exc # "" THEN s3
       ELSE [Did(s3, <<"Destroy_Task", vm, s3.inv[vm].power>>) EXCEPT !.inv[vm].alive = FALSE]

\* the entities beneath a folder, the folder itself not among them
RECURSIVE Beneath(_, _)
Beneath(inv, folder) ==
    LET children == {h \in 1..Len(inv) : inv[h].alive /\ inv[h].parent = folder}
    IN children \cup UNION {Beneath(inv, h) : h \in children}

\* vim.Folder.UnregisterAndDestroy_Task(): the folder and everything beneath
\* it leaves the inventory; the call is recorded with what the folder held
UnregisterAndDestroy_Task(s, folder) ==
    LET gone == Beneath(s.inv, folder) \cup {folder}
    IN [Did(s, <<"UnregisterAndDestroy_Task", folder, Beneath(s.inv, folder)>>)
          EXCEPT !.inv = [h \in 1..Len(s.inv) |->
                            IF h \in gone THEN [s.inv[h] EXCEPT !.alive = FALSE] ELSE s.inv[h]]]

\* lines 206-208 without the test of the prefix
destroys_vm_of_any_name(name, vm_prefix) == TRUE

\* lines 206-208: whether cleanup destroys a machine of that name
destroys_vm(name, vm_prefix) == vm_prefix = YNone \/ startswith(name, vm_prefix.v)

\* folder_utils.cleanup(folder, vm_prefix, folder_prefix, recursive,
\* destroy_folders, destroy_self); a prefix is YNone or a string
RECURSIVE cleanup(_, _, _, _, _, _, _, _)
cleanup(s, folder, vm_prefix, folder_prefix, recursive, destroy_folders, destroy_self, platform) ==
    LET items == childEntity(s.inv, folder)
        one(t, item) ==
            IF t.exc # "" THEN t
            ELSE IF is_vm(t.inv, item)
            THEN IF destroys_vm(t.inv[item].name, vm_prefix)
                 THEN destroy_vm(Did(t, <<"visit", folder, item>>), item, platform)
                 ELSE Did(t, <<"visit", folder, item>>)
            ELSE IF is_folder(t.inv, item)
            THEN IF folder_prefix = YNone \/ startswith(t.inv[item].name, folder_prefix.v)
                 THEN IF destroy_folders
                      THEN cleanup(Did(t, <<"visit", folder, item>>), item, YNone, YNone,
                                   TRUE, TRUE, TRUE, platform)
                      ELSE IF recursive
                      THEN cleanup(Did(t, <<"visit", folder, item>>), item, vm_prefix,
                                   folder_prefix, TRUE, FALSE, FALSE, platform)
                      ELSE Did(t, <<"visit", folder, item>>)
                 ELSE Did(t, <<"visit", folder, item>>)
            ELSE Said(Did(t, <<"visit", folder, item>>), "error",
                      "Unknown item encountered while cleaning folder '%s': %s",
                      <<t.inv[folder].name, t.inv[item].name>>)
        loop[i \in 0..Len(items)] ==
            IF i = 0
            THEN Said(Did(s, <<"cleanup", folder>>), "debug", "Cleaning folder '%s'",
                      <<s.inv[folder].name>>)
            ELSE one(loop[i - 1], items[i])
        after == loop[Len(items)]
    IN IF s.exc # "" THEN s
       ELSE IF destroy_self /\ after.exc = ""
       THEN UnregisterAndDestroy_Task(
                Said(after, "debug", "Destroying folder: '%s'", <<s.inv[folder].name>>), folder)
       ELSE after


(***************************************************************************)
(* The inventories the destruction runs on: the folder "vms" (handle 1)    *)
(* with a machine, a vApp and the folder "labs", which holds two machines  *)
(* and the folder "deep" with one machine.                                 *)
(***************************************************************************)
Tree(on, template, app, deep) ==
    <<Entity("folder", "vms", None),
      [Entity("vm", "web-1", 1) EXCEPT !.power = IF 2 \in on THEN "on" ELSE "off",
                                       !.template = template],
      Entity("folder", "labs", 1),
      Entity("vm", "db", 3),
      [Entity("vm", "web-2", 3) EXCEPT !.power = IF 5 \in on THEN "on" ELSE "off"],
      [Entity(IF app THEN "app" ELSE "vm", "other", 1) EXCEPT !.note = "vApp"]>>
    \o IF deep THEN <<Entity("folder", "deep", 3), Entity("vm", "web", 7)>> ELSE <<>>

Trees ==
    {Tree(on, template, app, deep) :
        on \in SUBSET {2, 5}, template \in BOOLEAN, app \in BOOLEAN, deep \in BOOLEAN}

Alive(inv) == {h \in 1..Len(inv) : inv[h].alive}

(***************************************************************************)
(* destroy_vms.py, from the first prompt on.  prompt_y_n_question gives    *)
(* the answer of the user; user_input gives an entity the user named.      *)
(***************************************************************************)
Asked(sc, question, answer) == [sc EXCEPT !.asked = Append(@, <<question, answer>>)]

\* lines 47-49 without the exit(0) of line 49: the script goes on to the
\* second prompt whatever the answer to the warning
after_template_warning_without_exit(answer) == "vm_confirm"

\* lines 48-49: exit(0) on a negative answer to the warning
after_template_warning(answer) == IF answer THEN "vm_confirm" ELSE "done"

\* retrieve_items(folder, prefix, True) of line 69, as the script means it:
\* the machines of the prefix and the folders beneath the folder
retrieve_items(inv, folder, prefix) ==
    <<{h \in Beneath(inv, folder) :
          is_vm(inv, h) /\ (prefix = YNone \/ startswith(inv[h].name, prefix.v))},
      {h \in Beneath(inv, folder) : is_folder(inv, h)}>>

InitDestroy ==
    /\ spec = YMap(<<>>) /\ infra = CleanInfra
    /\ called = NoCall /\ ret = Returned(Ok0, YNone)
    /\ walk = NoWalk
    /\ \E tree \in Trees : vs = [NoServer EXCEPT !.inv = tree]
    /\ script = [NoScript EXCEPT !.pc = "start"]

\* line 43
Prompt_single_vm(answer) ==
    /\ script.pc = "start"
    /\ script' = [Asked(script, "Do you wish to destroy a single VM? ", answer)
                    EXCEPT !.pc = IF answer THEN "vm_input" ELSE "folder_input"]
    /\ UNCHANGED <<spec, infra, called, ret, walk, vs>>

\* lines 45-47: the entity the user named, and the test of vm.config.template
Input_vm(item) ==
    /\ script.pc = "vm_input"
    /\ item \in Alive(vs.inv)
    /\ IF ~is_vm(vs.inv, item)
       THEN /\ vs' = Raised(vs, "AttributeError")
            /\ script' = [script EXCEPT !.vm = item, !.pc = "done"]
       ELSE /\ vs' = vs
            /\ script' = [script EXCEPT !.vm = item,
                             !.pc = IF is_template(vs.inv, item) THEN "template_warning"
                                    ELSE "vm_confirm"]
    /\ UNCHANGED <<spec, infra, called, ret, walk>>

\* lines 48-49
Prompt_template(answer) ==
    /\ script.pc = "template_warning"
    /\ script' = [Asked(script, "VM %s is a Template. Do you wish to continue? ", answer)
                    EXCEPT !.pc = after_template_warning(answer)]
    /\ UNCHANGED <<spec, infra, called, ret, walk, vs>>

\* lines 50-54
Prompt_continue_vm(answer, platform) ==
    /\ script.pc = "vm_confirm"
    /\ script' = [Asked(script, "Continue with destruction? ", answer) EXCEPT !.pc = "done"]
    /\ vs' = IF answer
             THEN destroy_vm(Said(vs, "info", "Destroying VM with name %s",
                                  <<vs.inv[script.vm].name>>), script.vm, platform)
             ELSE Said(vs, "info", "Destruction cancelled", <<>>)
    /\ UNCHANGED <<spec, infra, called, ret, walk>>

\* lines 56-60: the entity the user named, and enumerate_folder on it
Input_folder(item) ==
    /\ script.pc = "folder_input"
    /\ item \in Alive(vs.inv)
    /\ IF ~is_folder(vs.inv, item)
       THEN /\ vs' = Raised(vs, "AttributeError")
            /\ script' = [script EXCEPT !.folder = item, !.pc = "done"]
       ELSE /\ vs' = Said(vs, "info", "Folder structure: %s", <<vs.inv[item].name>>)
            /\ script' = [script EXCEPT !.folder = item, !.pc = "options"]
    /\ UNCHANGED <<spec, infra, called, ret, walk>>

\* lines 62-70
Prompt_options(prefix, recursive, destroy_folders, destroy_self) ==
    /\ script.pc = "options"
    /\ script' = [Asked(Asked(Asked(script, "Recursively descend into folders? ", recursive),
                              "Destroy folders in addition to VMs? ", destroy_folders),
                        "Destroy the folder itself? ", destroy_self)
                    EXCEPT !.pc = "folder_confirm",
                           !.options = <<prefix, recursive, destroy_folders, destroy_self>>]
    /\ vs' = Said(Said(Said(vs, "info", "Prefix: %s\tRecursive: %s", <<prefix.v, recursive>>),
                       "info", "Folder-destruction: %s\tSelf-destruction: %s",
                       <<destroy_folders, destroy_self>>),
                  "info", "%d VMs and %d folders match the options",
                  <<Cardinality(retrieve_items(vs.inv, script.folder, prefix)[1]),
                    Cardinality(retrieve_items(vs.inv, script.folder, prefix)[2])>>)
    /\ UNCHANGED <<spec, infra, called, ret, walk>>

\* lines 71-75
Prompt_continue_folder(answer, platform) ==
    /\ script.pc = "folder_confirm"
    /\ script' = [Asked(script, "Continue with destruction? ", answer) EXCEPT !.pc = "done"]
    /\ vs' = IF answer
             THEN cleanup(Said(vs, "info", "Destroying...", <<>>), script.folder,
                          script.options[1], YNone, script.options[2], script.options[3],
                          script.options[4], platform)
             ELSE Said(vs, "info", "Destruction cancelled", <<>>)
    /\ UNCHANGED <<spec, infra, called, ret, walk>>

NextDestroy ==
    \/ \E answer \in BOOLEAN : Prompt_single_vm(answer)
    \/ \E item \in 1..Len(vs.inv) : Input_vm(item)
    \/ \E answer \in BOOLEAN : Prompt_template(answer)
    \/ \E answer \in BOOLEAN, platform \in Platforms : Prompt_continue_vm(answer, platform)
    \/ \E item \in 1..Len(vs.inv) : Input_folder(item)
    \/ \E prefix \in {YNone, YStr("web")}, recursive, destroy_folders, destroy_self \in BOOLEAN :
          Prompt_options(prefix, recursive, destroy_folders, destroy_self)
    \/ \E answer \in BOOLEAN, platform \in Platforms : Prompt_continue_folder(answer, platform)

SpecDestroy == InitDestroy /\ [][NextDestroy]_vars

\* the destructive calls made on the server
Destructive ==
    {n \in 1..Len(vs.calls) :
        vs.calls[n][1] \in {"destroy_vm", "cleanup", "PowerOffVM_Task", "Destroy_Task",
                            "UnregisterAndDestroy_Task"}}
Answered(question, answer) ==
    \E n \in 1..Len(script.asked) : script.asked[n] = <<question, answer>>

\* C21: destroy_vms.py makes a destructive call only after a yes to "Continue
\* with destruction?", and for a template in the single-VM branch only after
\* a yes to the template warning as well; after a no to either there is no
\* destructive call at all, and the server is as it was.
C21_Confirmed ==
    /\ Destructive # {} =>
          /\ Answered("Continue with destruction? ", TRUE)
          /\ (script.vm # None /\ is_template(vs.inv, script.vm)) =>
                Answered("VM %s is a Template. Do you wish to continue? ", TRUE)
    /\ (\/ Answered("Continue with destruction? ", FALSE)
        \/ Answered("VM %s is a Template. Do you wish to continue? ", FALSE)) =>
          /\ Destructive = {}
          /\ vs.inv \in Trees
C21_Asked ==
    vs'.calls # vs.calls =>
        /\ script'.asked = Append(script.asked, <<"Continue with destruction? ", TRUE>>)
        /\ script.pc \in {"vm_confirm", "folder_confirm"}
C21_DestroyOnlyConfirmed == []C21_Confirmed /\ [][C21_Asked]_vars

\* both branches have destroyed: a template after two affirmative answers, or
\* a folder with what it held
C21_Witness ==
    /\ script.pc = "done" /\ Destructive # {}
    /\ \/ /\ script.vm # None /\ is_template(vs.inv, script.vm)
          /\ ~vs.inv[script.vm].alive
       \/ /\ script.folder # None
          /\ \E n \in 1..Len(vs.calls) : vs.calls[n][1] = "UnregisterAndDestroy_Task"
          /\ \E n \in 1..Len(vs.calls) : vs.calls[n][1] = "Destroy_Task"


(***************************************************************************)
(* verify_infra_syntax, reached through check_syntax on an infrastructure  *)
(* file.                                                                   *)
(***************************************************************************)
InfraChecked == called = <<"check_syntax", "spec.yaml", "infra">> /\ spec.t = "map"
Placeholders == {"amazon-aws", "digital-ocean", "hyper-v"}
\* the document without its entries for the platforms that get no validation
WithoutPlaceholders(infradoc) ==
    YMap(SelectSeq(infradoc.v, LAMBDA entry : entry.k \notin Placeholders))
\* a validated platform comes before a platform that gets no validation
ValidatedBeforePlaceholder(infradoc) ==
    \E i, j \in 1..Len(infradoc.v) :
        /\ i < j
        /\ infradoc.v[i].k \in {"vmware-vsphere", "docker"}
        /\ infradoc.v[j].k \in Placeholders

\* C22: an entry for amazon-aws, digital-ocean or hyper-v adds no error to
\* what verify_infra_syntax returns, whatever it holds and whatever platforms
\* come before it: the errors are those of the document without the entry.
C22_PlaceholdersUnvalidated ==
    (InfraChecked /\ ret.exc = "" /\ Keys(spec) \cap Placeholders # {}) =>
        ret.e = verify_infra_syntax(WithoutPlaceholders(spec)).e

\* C22, what holds: the entry adds nothing when no vmware-vsphere or docker
\* entry comes before it.
C22_PlaceholdersFirst ==
    (/\ InfraChecked /\ ret.exc = "" /\ Keys(spec) \cap Placeholders # {}
     /\ ~ValidatedBeforePlaceholder(spec)) =>
        /\ ret.e = verify_infra_syntax(WithoutPlaceholders(spec)).e
        /\ ret.w = verify_infra_syntax(WithoutPlaceholders(spec)).w

\* the error-level diagnostics of the verifier, without the verdict check_syntax logs
VerifierErrors ==
    Cardinality({i \in 1..Len(ret.log) :
                    /\ ret.log[i].lvl = "error"
                    /\ ret.log[i].msg # "Syntax check failed! Errors: %d\tWarnings: %d"})

\* C23: the error count verify_infra_syntax and verify_exercise_syntax return
\* is the number of errors the pass logged, and check_syntax accepts no
\* document whose pass logged an error.
C23_ErrorsCounted ==
    /\ (InfraChecked /\ ret.exc = "") =>
          /\ ret.e = VerifierErrors
          /\ VerifierErrors > 0 => ret.value = YNone
    /\ (called = <<"adles", "verify_exercise_syntax">> /\ ret.exc = "") =>
          ret.e = NumLogged(ret.log, "error")

\* C23, what holds: a logged error is counted unless it is the error of an
\* unknown infrastructure platform.
C23_CountedButUnknownPlatform ==
    (InfraChecked /\ ret.exc = "") =>
        ret.e = VerifierErrors
                - Cardinality({i \in 1..Len(ret.log) :
                                  ret.log[i].msg = "Unknown infrastructure platform: %s"})


\* the positions in the calls of one step of an operation, and of an
\* operation on one machine
CallsOf(operation) == {n \in 1..Len(NewCalls) : NewCalls[n][1] = operation}
CallsOn(operations, vm) ==
    SelectSeq(NewCalls, LAMBDA c : c[1] \in operations /\ c[2] = vm)
\* the template-origin services create_masters started on and whose master
\* is there after the step
Cloned == {i \in TemplateOrigin : Attempted(i) /\ MasterAfter(i) # None}

\* C24: for a cloned master whose service declares as many networks as the
\* clone has interfaces, create_masters calls edit_nic once per interface, the
\* i-th call for interface i and the i-th network, and goes on to the note
\* and the snapshot; when the numbers differ it calls no edit_nic and goes on.
C24_Rewired ==
    StepOf("Interface.create_masters") =>
        \A i \in Cloned :
            PyIn("networks", ServiceAt(i).v) =>
                LET networks == Get(ServiceAt(i).v, "networks")
                    vm == MasterAfter(i)
                IN /\ CallsOn({"edit_nic"}, vm) =
                         IF PyLen(networks) = vs'.inv[vm].nics
                         THEN [k \in 1..PyLen(networks) |-> <<"edit_nic", vm, k, networks.v[k]>>]
                         ELSE <<>>
                   /\ DoneNow("create_snapshot", vm)
C24_NicsReconciled == [][C24_Rewired]_vars

\* C24, what create_masters does: with equal numbers it raises TypeError at
\* line 93 before any edit_nic, note or snapshot; with different numbers it
\* calls no edit_nic and takes the snapshot.
C24_Raised ==
    StepOf("Interface.create_masters") =>
        /\ CallsOf("edit_nic") = {}
        /\ \A i \in Cloned :
              PyIn("networks", ServiceAt(i).v) =>
                  IF PyLen(Get(ServiceAt(i).v, "networks")) = vs'.inv[MasterAfter(i)].nics
                  THEN /\ vs'.exc = "TypeError"
                       /\ CallsOn({"set_note", "create_snapshot"}, MasterAfter(i)) = <<>>
                  ELSE DoneNow("create_snapshot", MasterAfter(i))
C24_EqualLengthsRaise == [][C24_Raised]_vars

\* C25: in create_masters the master folder is made or found before any
\* port-group, every port-group before the first clone; every cloned master,
\* also of a service without networks or note, gets its note, if any, and then
\* exactly one snapshot "post-clone" as the last operation on it; a service
\* that is no template causes no operation.
C25_InOrder ==
    StepOf("Interface.create_masters") =>
        /\ \A f \in CallsOf("create_folder"), p \in CallsOf("create_portgroup") : f < p
        /\ \A p \in CallsOf("create_portgroup"), c \in CallsOf("clone_vm") : p < c
        /\ Cardinality(CallsOf("clone_vm")) <= Cardinality(TemplateOrigin)
        /\ \A i \in Cloned :
              LET on == CallsOn({"edit_nic", "set_note", "create_snapshot"}, MasterAfter(i))
                  snapshots == CallsOn({"create_snapshot"}, MasterAfter(i))
              IN /\ snapshots = <<<<"create_snapshot", MasterAfter(i), "post-clone">>>>
                 /\ on[Len(on)][1] = "create_snapshot"
                 /\ PyIn("note", ServiceAt(i).v) =>
                       CallsOn({"set_note"}, MasterAfter(i)) =
                           <<<<"set_note", MasterAfter(i), Get(ServiceAt(i).v, "note").v>>>>
C25_CreateMastersOrdered == [][C25_InOrder]_vars

\* C25, what holds: the calls create_masters makes are in that order, and a
\* master has at most one snapshot from a call, after which nothing is done
\* on it.
C25_MadeInOrder ==
    StepOf("Interface.create_masters") =>
        /\ \A f \in CallsOf("create_folder"), p \in CallsOf("create_portgroup") : f < p
        /\ \A p \in CallsOf("create_portgroup"), c \in CallsOf("clone_vm") : p < c
        /\ Cardinality(CallsOf("clone_vm")) <= Cardinality(TemplateOrigin)
        /\ \A i \in Cloned :
              LET on == CallsOn({"edit_nic", "set_note", "create_snapshot"}, MasterAfter(i))
              IN /\ Len(CallsOn({"create_snapshot"}, MasterAfter(i))) <= 1
                 /\ \A n \in 1..Len(on) : on[n][1] = "create_snapshot" => n = Len(on)
C25_CallsMadeInOrder == [][C25_MadeInOrder]_vars


(***************************************************************************)
(* One call of a function of folder_utils.py or vm_utils.py on a tree.     *)
(* The call is the first of `vs.calls`, what a search returned its last    *)
(* element.                                                                *)
(***************************************************************************)
InitTree ==
    /\ spec = YMap(<<>>) /\ infra = CleanInfra
    /\ called = NoCall /\ ret = Returned(Ok0, YNone)
    /\ walk = NoWalk /\ script = NoScript
    /\ \E tree \in Trees : vs = [NoServer EXCEPT !.inv = tree]

NotCalled == vs.calls = <<>> /\ vs.inv # <<>>
FoldersOf(inv) == {h \in Alive(inv) : is_folder(inv, h)}
Prefixes == {YNone, YStr("web")}
FolderPrefixes == {YNone, YStr("deep")}
SearchNames == {"DB", "web", "web-2", "labs", "nothing"}
Paths == {"", "labs/", "gone/", "LABS/db", "gone/web-1", "labs/deep/web", "labs/gone/db",
          "/labs/web-2", "web-1"}

\* folder_utils.cleanup
Call_cleanup(folder, vm_prefix, folder_prefix, recursive, destroy_folders, destroy_self, platform) ==
    /\ NotCalled /\ folder \in FoldersOf(vs.inv)
    /\ vs' = cleanup(Did(vs, <<"Call_cleanup", folder, vm_prefix, folder_prefix, recursive,
                               destroy_folders, destroy_self>>),
                     folder, vm_prefix, folder_prefix, recursive, destroy_folders,
                     destroy_self, platform)
    /\ UNCHANGED <<spec, infra, called, ret, walk, script>>

\* folder_utils.find_in_folder
Call_find_in_folder(folder, name, recursive, vimtype) ==
    /\ NotCalled /\ folder \in FoldersOf(vs.inv)
    /\ vs' = Did(vs, <<"find_in_folder", folder, name, recursive, vimtype,
                       find_in_folder(vs.inv, folder, name, recursive, vimtype)>>)
    /\ UNCHANGED <<spec, infra, called, ret, walk, script>>

\* folder_utils.traverse_path
Call_traverse_path(root, path) ==
    /\ NotCalled /\ root \in FoldersOf(vs.inv)
    /\ vs' = Said(Did(vs, <<"traverse_path", root, path, traverse_path(vs.inv, root, path)>>),
                  "debug", "Traversing path '%s' from root '%s'", <<path, vs.inv[root].name>>)
    /\ UNCHANGED <<spec, infra, called, ret, walk, script>>

\* vm_utils.destroy_vm
Call_destroy_vm(vm, platform) ==
    /\ NotCalled /\ vm \in Alive(vs.inv) /\ is_vm(vs.inv, vm)
    /\ vs' = destroy_vm(Did(vs, <<"Call_destroy_vm", vm, vs.inv[vm].power, platform>>), vm, platform)
    /\ UNCHANGED <<spec, infra, called, ret, walk, script>>

NextTree ==
    \/ \E folder \in 1..Len(vs.inv), vm_prefix \in Prefixes, folder_prefix \in FolderPrefixes,
          recursive, destroy_folders, destroy_self \in BOOLEAN, platform \in Platforms :
          Call_cleanup(folder, vm_prefix, folder_prefix, recursive, destroy_folders,
                       destroy_self, platform)
    \/ \E folder \in 1..Len(vs.inv), name \in SearchNames, recursive \in BOOLEAN,
          vimtype \in {"", "vm", "folder"} :
          Call_find_in_folder(folder, name, recursive, vimtype)
    \/ \E root \in 1..Len(vs.inv), path \in Paths : Call_traverse_path(root, path)
    \/ \E vm \in 1..Len(vs.inv), platform \in Platforms : Call_destroy_vm(vm, platform)

SpecTree == InitTree /\ [][NextTree]_vars


FirstCall == vs.calls[1]
CleanupCalled == vs.calls # <<>> /\ FirstCall[1] = "Call_cleanup"
\* the machines Destroy_Task was called on
Destroyed == {vs.calls[n][2] : n \in {m \in 1..Len(vs.calls) : vs.calls[m][1] = "Destroy_Task"}}

SearchCalled == vs.calls # <<>> /\ FirstCall[1] = "find_in_folder"
\* the entities of that name, and of that type when one is given
Matching(inv, among, name, vimtype) ==
    {h \in among : lower(inv[h].name) = lower(name) /\ (vimtype # "" => inv[h].kind = vimtype)}
Children(inv, folder) == {h \in Alive(inv) : inv[h].parent = folder}

\* C27: find_in_folder with recursive=True returns an entity of the name (and
\* type) from anywhere beneath the folder when there is one, and None only
\* when there is none; with recursive=False it considers the children only.
C27_FoundBeneath ==
    SearchCalled =>
        LET among == IF FirstCall[4] THEN Beneath(vs.inv, FirstCall[2])
                     ELSE Children(vs.inv, FirstCall[2])
            matching == Matching(vs.inv, among, FirstCall[3], FirstCall[5])
        IN IF matching = {} THEN FirstCall[6] = None ELSE FirstCall[6] \in matching

\* C27, what find_in_folder does: whatever `recursive` is, it returns a child
\* of the folder that matches, and None when no child does.
C27_FoundAmongChildren ==
    SearchCalled =>
        LET matching == Matching(vs.inv, Children(vs.inv, FirstCall[2]), FirstCall[3],
                                 FirstCall[5])
        IN IF matching = {} THEN FirstCall[6] = None ELSE FirstCall[6] \in matching

TraverseCalled == vs.calls # <<>> /\ FirstCall[1] = "traverse_path"
\* the folder a sequence of folder names denotes beneath a folder, None when
\* one of them names no folder; an empty name stays where it is
RECURSIVE Denoted(_, _, _)
Denoted(inv, folder, names) ==
    IF names = <<>> \/ folder = None THEN folder
    ELSE IF names[1] = "" THEN Denoted(inv, folder, Tail(names))
    ELSE LET next == {h \in Children(inv, folder) :
                         is_folder(inv, h) /\ lower(inv[h].name) = names[1]}
         IN IF next = {} THEN None
            ELSE Denoted(inv, CHOOSE h \in next : TRUE, Tail(names))

\* C28: traverse_path returns the entity the last component names in the
\* folder the components before it denote, that folder itself for a path
\* without a last component, and None when a component names no folder: never
\* an entity of another folder.
C28_ResolvedStrictly ==
    TraverseCalled =>
        LET at == Denoted(vs.inv, FirstCall[2], split(FirstCall[3]).folder_path)
            name == split(FirstCall[3]).name
        IN IF at = None THEN FirstCall[4] = None
           ELSE IF name = "" THEN FirstCall[4] = at
           ELSE IF Matching(vs.inv, Children(vs.inv, at), name, "") = {}
           THEN FirstCall[4] = None
           ELSE FirstCall[4] \in Matching(vs.inv, Children(vs.inv, at), name, "")

\* C28, what holds: traverse_path resolves a path all of whose folders exist.
C28_ResolvedWhenFoldersExist ==
    (TraverseCalled /\ Denoted(vs.inv, FirstCall[2], split(FirstCall[3]).folder_path) # None)
        => C28_ResolvedStrictly

DestroyVmCalled == vs.calls # <<>> /\ FirstCall[1] = "Call_destroy_vm"
Positions(operation) == {n \in 1..Len(vs.calls) : vs.calls[n][1] = operation}

\* C29: destroy_vm calls Destroy_Task exactly once, and on a machine that is
\* off: one that was on is powered off first, and the power-off is complete
\* when Destroy_Task is called; for one that was off no power operation is
\* made.
C29_DestroyedOff ==
    DestroyVmCalled =>
        /\ Cardinality(Positions("Destroy_Task")) = 1
        /\ \A d \in Positions("Destroy_Task") :
              /\ vs.calls[d][3] = "off"
              /\ FirstCall[3] = "on" =>
                    \E p \in Positions("PowerOffVM_Task") : p < d
        /\ FirstCall[3] = "off" => Positions("PowerOffVM_Task") = {}

\* C29, what holds: destroy_vm requests the power-off of a machine that is on
\* before any Destroy_Task, requests none for a machine that is off, and calls
\* Destroy_Task at most once.
C29_PowerOffRequestedFirst ==
    DestroyVmCalled =>
        /\ Cardinality(Positions("Destroy_Task")) <= 1
        /\ FirstCall[3] = "on" =>
              /\ Cardinality(Positions("PowerOffVM_Task")) = 1
              /\ \A d \in Positions("Destroy_Task"), p \in Positions("PowerOffVM_Task") : p < d
        /\ FirstCall[3] = "off" =>
              Positions("PowerOffVM_Task") = {} /\ Cardinality(Positions("Destroy_Task")) = 1

\* C30: cleanup destroys a folder only after it visited every child of it,
\* and the folder is empty when it is destroyed.
C30_DestroyedEmpty ==
    CleanupCalled =>
        \A u \in Positions("UnregisterAndDestroy_Task") : vs.calls[u][3] = {}

\* C30, what holds: cleanup destroys a folder only after it visited every
\* entity the folder still holds at that moment.
C30_DestroyedAfterVisits ==
    CleanupCalled =>
        \A u \in Positions("UnregisterAndDestroy_Task") :
            \A h \in {k \in vs.calls[u][3] : vs.inv[k].parent = vs.calls[u][2]} :
                \E n \in Positions("visit") :
                    n < u /\ vs.calls[n][2] = vs.calls[u][2] /\ vs.calls[n][3] = h

====
